---------------------------- MODULE Spec2Model ----------------------------
(***************************************************************************)
(* A model of the NS8 dependency updater: the build-script scanner and the *)
(* textual patcher of internal/updater/docker.go, the version selection of *)
(* internal/images/updates.go and the per-repository update workflow of    *)
(* the service package (UpdaterService).                                   *)
(*                                                                         *)
(* Text is a sequence of atoms.  An atom is one character, except for the  *)
(* fixed literals the regular expressions of the scanners anchor on        *)
(* ("docker.io/", "_version") and a few identifiers ("postgres", "redis"), *)
(* which stand for their whole spelling.  No atom is spelled with the      *)
(* characters of another, so a substring match of the real text is a       *)
(* subsequence match of the atoms.                                         *)
(***************************************************************************)
EXTENDS Integers, Sequences, FiniteSets, TLC

\* ------------------------------------------------------------------ atoms
DOCKER == "docker.io/"
VERSION == "_version"
QUOTE == "\""
EQ == "="
COLON == ":"
SP == " "
HASH == "#"
DOLLAR == "$"
NL == "\n"
DOT == "."
LBRACE == "{"
RBRACE == "}"
SQUOTE == "'"
GHCR == "ghcr.io/"

Letters == {"x", "v", "postgres", "redis"}
Digits == {"0", "1", "2", "3", "4", "5", "6", "7", "8", "9"}

\* \w of the regular expressions: letters, digits and underscore
IsWord(c) == c \in Letters \cup Digits \cup {VERSION}
\* \s of the regular expressions
IsSpace(c) == c \in {SP, NL, "\t"}

\* ------------------------------------------------------- string functions
\* s[from..] (1-based), the empty sequence when from is past the end
Drop(s, n) == SubSeq(s, n + 1, Len(s))
Take(s, n) == SubSeq(s, 1, n)

HasPrefix(s, p) == Len(p) <= Len(s) /\ SubSeq(s, 1, Len(p)) = p

\* strings.Contains
Contains(s, p) == \E i \in 0..(Len(s) - Len(p)) : SubSeq(s, i + 1, i + Len(p)) = p

\* strings.ReplaceAll for a non-empty old: leftmost, non-overlapping
RECURSIVE ReplaceAll(_, _, _)
ReplaceAll(s, old, new) ==
    IF Len(s) < Len(old) \/ old = <<>> THEN s
    ELSE IF HasPrefix(s, old)
         THEN new \o ReplaceAll(Drop(s, Len(old)), old, new)
         ELSE <<s[1]>> \o ReplaceAll(Tail(s), old, new)

\* strings.TrimSpace, leading side (the scanner only tests emptiness and
\* the first character of the trimmed line)
RECURSIVE TrimLeft(_)
TrimLeft(s) == IF s # <<>> /\ IsSpace(s[1]) THEN TrimLeft(Tail(s)) ELSE s

\* the longest prefix of s whose atoms all satisfy the class Cls
RECURSIVE RunLen(_, _)
RunLen(s, Cls) == IF s # <<>> /\ s[1] \in Cls THEN 1 + RunLen(Tail(s), Cls) ELSE 0

AllAtoms == Letters \cup Digits \cup
            {DOCKER, VERSION, QUOTE, EQ, COLON, SP, HASH, DOLLAR, NL, DOT, "-", "+", "\t",
             LBRACE, RBRACE, SQUOTE, GHCR}

\* bufio.Scanner with ScanLines: the lines of a content, newline removed
RECURSIVE SplitLines(_)
SplitLines(s) ==
    IF s = <<>> THEN <<>>
    ELSE LET n == RunLen(s, AllAtoms \ {NL})
         IN  <<Take(s, n)>> \o SplitLines(Drop(s, n + 1))

\* the decimal digits of a natural number (fmt's %d), and back
DigitOf(n) == CHOOSE d \in Digits : d = ToString(n)
RECURSIVE Itoa(_)
Itoa(n) == IF n < 10 THEN <<DigitOf(n)>> ELSE Itoa(n \div 10) \o <<DigitOf(n % 10)>>

DigitVal(d) == CHOOSE n \in 0..9 : ToString(n) = d
RECURSIVE Atoi(_)
Atoi(ds) == IF ds = <<>> THEN 0 ELSE Atoi(Take(ds, Len(ds) - 1)) * 10 + DigitVal(ds[Len(ds)])

\* the member of a singleton set: { e : x \in {d} } is e with x standing
\* for the value of d
The(S) == CHOOSE x \in S : TRUE

\* ------------------------------------------ internal/images: versions
\* fmt.Sscanf's %d: leading blanks skipped, an optional sign, then decimal
\* digits.  Returns the number read and the rest of the input, or ok = FALSE.
ScanInt(s) ==
    LET trimmed == TrimLeft(s)
        signed == trimmed # <<>> /\ trimmed[1] \in {"-", "+"}
        u == IF signed THEN Tail(trimmed) ELSE trimmed
        n == RunLen(u, Digits)
    IN  IF n = 0 THEN [ok |-> FALSE, val |-> 0, rest |-> u]
        ELSE [ok |-> TRUE,
              val |-> IF signed /\ trimmed[1] = "-" THEN 0 - Atoi(Take(u, n))
                      ELSE Atoi(Take(u, n)),
              rest |-> Drop(u, n)]

\* fmt.Sscanf(v, "%d.%d.%d", &a, &b, &c): the operands stored before the
\* first mismatch keep their value, the others stay 0; n counts the stored
\* operands; input left over after the third operand is not an error.
Sscanf3(v) ==
    The({ The({ The({ [n |-> (IF a.ok THEN 1 ELSE 0) + (IF b.ok THEN 1 ELSE 0)
                                + (IF c.ok THEN 1 ELSE 0),
                       maj |-> a.val, min |-> b.val, pat |-> c.val] :
                      c \in {IF b.ok /\ b.rest # <<>> /\ b.rest[1] = DOT
                              THEN ScanInt(Tail(b.rest))
                              ELSE [ok |-> FALSE, val |-> 0, rest |-> <<>>]} }) :
                b \in {IF a.ok /\ a.rest # <<>> /\ a.rest[1] = DOT
                        THEN ScanInt(Tail(a.rest))
                        ELSE [ok |-> FALSE, val |-> 0, rest |-> <<>>]} }) :
          a \in {ScanInt(v)} })

parseSemver(v) ==
    The({ IF r.n < 3 THEN [ok |-> FALSE, maj |-> 0, min |-> 0, pat |-> 0]
          ELSE [ok |-> TRUE, maj |-> r.maj, min |-> r.min, pat |-> r.pat] :
          r \in {Sscanf3(v)} })

\* greater with its last comparison made >=: an equal version counts as greater
greaterOrEqual(aMaj, aMin, aPat, bMaj, bMin, bPat) ==
    IF aMaj # bMaj THEN aMaj > bMaj
    ELSE IF aMin # bMin THEN aMin > bMin
    ELSE aPat >= bPat

greater(aMaj, aMin, aPat, bMaj, bMin, bPat) ==
    IF aMaj # bMaj THEN aMaj > bMaj
    ELSE IF aMin # bMin THEN aMin > bMin
    ELSE aPat > bPat

compareSemver(v1, v2) ==
    The({ IF a.maj # b.maj THEN (IF a.maj > b.maj THEN 1 ELSE -1)
          ELSE IF a.min # b.min THEN (IF a.min > b.min THEN 1 ELSE -1)
          ELSE IF a.pat # b.pat THEN (IF a.pat > b.pat THEN 1 ELSE -1)
          ELSE 0 :
          a \in {Sscanf3(v1)}, b \in {Sscanf3(v2)} })

SemverMatchLen(s) ==
    LET n1 == RunLen(s, Digits)
        s2 == Drop(s, n1 + 1)
        n2 == RunLen(s2, Digits)
        s3 == Drop(s2, n2 + 1)
        n3 == RunLen(s3, Digits)
    IN  IF /\ n1 > 0 /\ Len(s) > n1 /\ s[n1 + 1] = DOT
           /\ n2 > 0 /\ Len(s2) > n2 /\ s2[n2 + 1] = DOT
           /\ n3 > 0
        THEN n1 + n2 + n3 + 2 ELSE 0

\* parseVersion: the capture group of the leftmost match, "" when none
RECURSIVE parseVersion(_)
parseVersion(tag) ==
    IF tag = <<>> THEN <<>>
    ELSE LET n == SemverMatchLen(tag)
         IN  IF n > 0 THEN Take(tag, n) ELSE parseVersion(Tail(tag))

\* newTag, and the Tag literals of getDockerHubTags and getGenericTags
newTag(name) == [Name |-> name, Version |-> parseVersion(name)]

RECURSIVE TagsOf(_)
TagsOf(names) == IF names = <<>> THEN <<>> ELSE <<newTag(names[1])>> \o TagsOf(Tail(names))

NoTag == [Name |-> <<>>, Version |-> <<>>, nil |-> TRUE]
SomeTag(t) == [Name |-> t.Name, Version |-> t.Version, nil |-> FALSE]

\* the body of the loop of FindNearestUpgrade for tag t, best being the
\* running choice: the choice after t
NearestStep(cur, t, best) ==
    The({ IF ~p.ok THEN best
          ELSE IF greater(p.maj, p.min, p.pat, cur.maj, cur.min, cur.pat)
               THEN IF best.nil \/ greater(b.maj, b.min, b.pat, p.maj, p.min, p.pat)
                    THEN SomeTag(t)
                    ELSE best
               ELSE best :
          p \in {parseSemver(t.Version)}, b \in {parseSemver(best.Version)} })

\* the loop of FindNearestUpgrade over tags
RECURSIVE NearestLoop(_, _, _)
NearestLoop(cur, tags, best) ==
    IF tags = <<>> THEN best
    ELSE The({ NearestLoop(cur, Tail(tags), b) : b \in {NearestStep(cur, tags[1], best)} })

FindNearestUpgrade(current, tags) ==
    The({ IF ~c.ok THEN NoTag ELSE NearestLoop(c, tags, NoTag) : c \in {parseSemver(current)} })

\* strings.Split(version, "-") and its last part
RECURSIVE LastDashPart(_)
LastDashPart(s) ==
    IF \E i \in 1..Len(s) : s[i] = "-"
    THEN LastDashPart(Drop(s, 1 + RunLen(s, AllAtoms \ {"-"})))
    ELSE s

\* versionMap of filterLatestVersion: a later tag overwrites an earlier one
\* that has the same key
RECURSIVE VersionMap(_, _)
VersionMap(tags, m) ==
    IF tags = <<>> THEN m
    ELSE LET t == tags[1]
             v == LastDashPart(t.Version)
         IN  IF t.Version = <<>> THEN VersionMap(Tail(tags), m)
             ELSE VersionMap(Tail(tags),
                             [k \in (DOMAIN m) \cup {v} |-> IF k = v THEN t ELSE m[k]])

\* filterLatestVersion: the keys are sorted in descending order and the
\* first one is taken.  The keys come out of a Go map in any order and
\* sort.Slice is not stable, so among keys that compare equal any may be
\* first: the operator gives every result the call can have (the empty
\* set's only member is the nil slice).
filterLatestVersion(tags) ==
    LET m == VersionMap(tags, <<>>)
        first == {v \in DOMAIN m : \A w \in DOMAIN m : compareSemver(w, v) <= 0}
    IN  IF DOMAIN m = {} THEN {<<>>} ELSE {<<m[v]>> : v \in first}


\* --------------------------------------- internal/updater: the scanner
\* Dependency of the updater package (UpdaterName is always "docker")
Dep(name, cur, latest, file) ==
    [Name |-> name, CurrentVersion |-> cur, LatestVersion |-> latest, File |-> file]

\* page_size=1 of the Docker Hub request of getLatestDockerTag
PageSize == 1

\* A registry answer to the request of getLatestDockerTag: status is
\* "neterr" (client.Get fails), "non200", "badbody" (unreadable or
\* unparsable body) or "ok"; tags are the image's tag names, the most
\* recently updated first (ordering=-last_updated), of which the registry
\* returns the first PageSize.
Response(status, tags) == [status |-> status, tags |-> tags]
ResultsOf(resp) == Take(resp.tags, IF Len(resp.tags) < PageSize THEN Len(resp.tags) ELSE PageSize)

getLatestDockerTag(resp) ==
    IF resp.status # "ok" THEN [err |-> TRUE, tag |-> <<>>]
    ELSE IF ResultsOf(resp) = <<>> THEN [err |-> TRUE, tag |-> <<>>]
    ELSE [err |-> FALSE, tag |-> ResultsOf(resp)[1]]

\* knownApps of getLatestVersionForApp, the entries the atoms can spell
knownApps == { <<"postgres">>, <<"redis">> }

\* whether getLatestVersionForApp asks the registry
NeedsLookup(appName) == appName \in knownApps

getLatestVersionForApp(appName, currentVersion, resp) ==
    IF appName \in knownApps THEN getLatestDockerTag(resp)
    ELSE [err |-> FALSE, tag |-> currentVersion]

\* versionPattern = (\w+)_version="([^"]+)", FindStringSubmatch: whether the
\* pattern matches with its "_version" at position p of the line
VersionMatchAt(line, p) ==
    /\ p >= 2 /\ p + 3 <= Len(line)
    /\ line[p] = VERSION /\ IsWord(line[p - 1])
    /\ line[p + 1] = EQ /\ line[p + 2] = QUOTE
    /\ LET n == RunLen(Drop(line, p + 2), AllAtoms \ {QUOTE})
       IN  n > 0 /\ Len(line) >= p + 3 + n

\* the start of the run of word characters that ends at position q
RECURSIVE WordStart(_, _)
WordStart(line, q) == IF q > 1 /\ IsWord(line[q - 1]) THEN WordStart(line, q - 1) ELSE q

\* the leftmost match: its two groups
VersionMatch(line) ==
    LET ps == {p \in 1..Len(line) : VersionMatchAt(line, p)}
    IN  IF ps = {} THEN [found |-> FALSE, app |-> <<>>, val |-> <<>>]
        ELSE LET p == CHOOSE q \in ps : \A r \in ps : q <= r
                 n == RunLen(Drop(line, p + 2), AllAtoms \ {QUOTE})
             IN  [found |-> TRUE,
                  app |-> SubSeq(line, WordStart(line, p - 1), p - 1),
                  val |-> SubSeq(line, p + 3, p + 2 + n)]

\* the image pattern applied with FindStringSubmatch: the leftmost match only
RECURSIVE ImageMatchesFirstOnly(_)
ImageMatchesFirstOnly(s) ==
    IF s = <<>> THEN <<>>
    ELSE IF s[1] # DOCKER THEN ImageMatchesFirstOnly(Tail(s))
    ELSE LET rest == Tail(s)
             n == RunLen(rest, AllAtoms \ {COLON, SP, "\t", NL, QUOTE})
             after == Drop(rest, n + 1)
             t == RunLen(after, AllAtoms \ {SP, "\t", NL, QUOTE, DOLLAR})
         IN  IF n > 0 /\ Len(rest) > n /\ rest[n + 1] = COLON /\ t > 0
             THEN <<[name |-> Take(rest, n), tag |-> Take(after, t)]>>
             ELSE ImageMatchesFirstOnly(Tail(s))

\* imagePattern = docker\.io/([^:\s"]+):([^\s"\$]+), FindAllStringSubmatch:
\* the leftmost non-overlapping matches, each with its two groups
RECURSIVE ImageMatches(_)
ImageMatches(s) ==
    IF s = <<>> THEN <<>>
    ELSE IF s[1] # DOCKER THEN ImageMatches(Tail(s))
    ELSE LET rest == Tail(s)
             n == RunLen(rest, AllAtoms \ {COLON, SP, "\t", NL, QUOTE})
             after == Drop(rest, n + 1)
             t == RunLen(after, AllAtoms \ {SP, "\t", NL, QUOTE, DOLLAR})
         IN  IF n > 0 /\ Len(rest) > n /\ rest[n + 1] = COLON /\ t > 0
             THEN <<[name |-> Take(rest, n), tag |-> Take(after, t)]>>
                  \o ImageMatches(Drop(after, t))
             ELSE ImageMatches(Tail(s))

\* "Skip comments and empty lines"
SkippedLine(line) == TrimLeft(line) = <<>> \/ HasPrefix(TrimLeft(line), <<HASH>>)

\* the loop over the image matches with "continue" on a failed lookup: the
\* image is not reported
RECURSIVE ScanImagesSkippingFailed(_, _, _)
ScanImagesSkippingFailed(ms, file, st) ==
    IF ms = <<>> THEN st
    ELSE LET m == ms[1]
         IN  IF HasPrefix(m.tag, <<DOLLAR>>) THEN ScanImagesSkippingFailed(Tail(ms), file, st)
             ELSE LET r == getLatestDockerTag(st.oracle[1])
                  IN  ScanImagesSkippingFailed(
                          Tail(ms), file,
                          [deps |-> IF r.err THEN st.deps
                                    ELSE Append(st.deps, Dep(m.name, m.tag, r.tag, file)),
                           oracle |-> Tail(st.oracle)])

\* the loop over the image matches of one line; st = [deps, oracle], the
\* oracle holding the registry's answers to the lookups still to come
RECURSIVE ScanImages(_, _, _)
ScanImages(ms, file, st) ==
    IF ms = <<>> THEN st
    ELSE LET m == ms[1]
         IN  IF HasPrefix(m.tag, <<DOLLAR>>) THEN ScanImages(Tail(ms), file, st)
             ELSE LET r == getLatestDockerTag(st.oracle[1])
                      latest == IF r.err THEN m.tag ELSE r.tag
                  IN  ScanImages(Tail(ms), file,
                                 [deps |-> Append(st.deps, Dep(m.name, m.tag, latest, file)),
                                  oracle |-> Tail(st.oracle)])

\* the body of the line loop of scanBuildImagesFile
ScanLine(line, file, st) ==
    IF SkippedLine(line) THEN st
    ELSE LET vm == VersionMatch(line)
             r == getLatestVersionForApp(vm.app, vm.val, st.oracle[1])
             latest == IF r.err THEN vm.val ELSE r.tag
             st1 == IF ~vm.found THEN st
                    ELSE [deps |-> Append(st.deps,
                                          Dep(vm.app \o <<VERSION>>, vm.val, latest, file)),
                          oracle |-> IF NeedsLookup(vm.app) THEN Tail(st.oracle)
                                     ELSE st.oracle]
         IN  ScanImages(ImageMatches(line), file, st1)

RECURSIVE ScanLines(_, _, _)
ScanLines(lines, file, st) ==
    IF lines = <<>> THEN st
    ELSE ScanLines(Tail(lines), file, ScanLine(lines[1], file, st))

\* scanBuildImagesFile on a file that opens: its dependencies, and the
\* answers left over
scanBuildImagesFile(content, file, oracle) ==
    ScanLines(SplitLines(content), file, [deps |-> <<>>, oracle |-> oracle])

\* the number of registry lookups a scan of the content makes
RECURSIVE NumLookupsLines(_)
NumLookupsLines(lines) ==
    IF lines = <<>> THEN 0
    ELSE LET line == lines[1]
             vm == VersionMatch(line)
         IN  (IF SkippedLine(line) THEN 0
              ELSE (IF vm.found /\ NeedsLookup(vm.app) THEN 1 ELSE 0)
                   + Len(ImageMatches(line)))
             + NumLookupsLines(Tail(lines))

NumLookups(content) == NumLookupsLines(SplitLines(content))

\* ---------------------------------------- internal/updater: the patcher
\* ApplyUpdate on a file that reads and writes: the content written back
ApplyUpdate(content, dep) ==
    LET oldPattern == dep.Name \o <<EQ, QUOTE>> \o dep.CurrentVersion \o <<QUOTE>>
        newPattern == dep.Name \o <<EQ, QUOTE>> \o dep.LatestVersion \o <<QUOTE>>
        oldImagePattern == dep.Name \o <<COLON>> \o dep.CurrentVersion
        newImagePattern == dep.Name \o <<COLON>> \o dep.LatestVersion
    IN  ReplaceAll(ReplaceAll(content, oldPattern, newPattern),
                   oldImagePattern, newImagePattern)


\* ------------------------------------------------------------ the state
VARIABLES
    \* the patcher called on one file
    aDecls,      \* the declarations the file was written with (never read by the code)
    aFile,       \* the file: [readable, writable, content]
    aDep,        \* the Dependency passed to ApplyUpdate
    aCalls,      \* the number of ApplyUpdate calls made
    aFirst,      \* the file's content after the first call
    aErr         \* whether the last call returned an error

applyVars == <<aDecls, aFile, aDep, aCalls, aFirst, aErr>>

\* ----------------------------------------------- declarations of a script
\* A declaration as the script's author wrote it: a version variable
\* app_version="ver" or an image reference docker.io/name:ver.
VarDecl(app, ver) == [kind |-> "var", name |-> app, ver |-> ver]
ImgDecl(name, ver) == [kind |-> "img", name |-> name, ver |-> ver]

RenderDecl(d) ==
    IF d.kind = "var" THEN d.name \o <<VERSION, EQ, QUOTE>> \o d.ver \o <<QUOTE>>
    ELSE <<DOCKER>> \o d.name \o <<COLON>> \o d.ver

\* the Name the scanner gives the declaration's Dependency
DepName(d) == IF d.kind = "var" THEN d.name \o <<VERSION>> ELSE d.name

RECURSIVE RenderDecls(_)
RenderDecls(ds) ==
    IF ds = <<>> THEN <<>>
    ELSE IF Len(ds) = 1 THEN RenderDecl(ds[1])
    ELSE RenderDecl(ds[1]) \o <<NL>> \o RenderDecls(Tail(ds))

\* all sequences over S of length at most n
SeqsUpTo(S, n) == UNION {[1..k -> S] : k \in 0..n}

\* ------------------------------------------------ ApplyUpdate on a file
MaxDecls == 2
MaxApplyCalls == 2

ApplyNames == { <<"postgres">>, <<"x", "postgres">> }
ApplyVersions == { <<"1">>, <<"1", "5">>, <<"2">> }
ApplyDecls ==
    {VarDecl(n, v) : n \in ApplyNames, v \in ApplyVersions}
    \cup {ImgDecl(n, v) : n \in ApplyNames, v \in ApplyVersions}
ApplyDeps ==
    {Dep(DepName(d), d.ver, l, "f") : d \in ApplyDecls, l \in ApplyVersions}

ApplyIdle ==
    /\ aDecls = <<>> /\ aFile = [readable |-> FALSE, writable |-> FALSE, content |-> <<>>]
    /\ aDep = Dep(<<>>, <<>>, <<>>, "f") /\ aCalls = 0 /\ aFirst = <<>> /\ aErr = FALSE

ApplyInit ==
    /\ aDecls \in SeqsUpTo(ApplyDecls, MaxDecls)
    /\ \E r \in BOOLEAN, w \in BOOLEAN :
          aFile = [readable |-> r, writable |-> w, content |-> RenderDecls(aDecls)]
    /\ aDep \in ApplyDeps
    /\ aCalls = 0 /\ aFirst = <<>> /\ aErr = FALSE

\* ApplyUpdate as it would be if a replacement that finds nothing to
\* replace were an error
ApplyUpdateFileStrict(file, dep) ==
    IF ~file.readable THEN [err |-> TRUE, file |-> file]
    ELSE IF ~file.writable THEN [err |-> TRUE, file |-> file]
    ELSE [err |-> ApplyUpdate(file.content, dep) = file.content,
          file |-> [file EXCEPT !.content = ApplyUpdate(file.content, dep)]]

\* ApplyUpdate, the whole call: os.ReadFile, the two replacements,
\* os.WriteFile.  A file that cannot be opened for writing keeps its content.
ApplyUpdateFile(file, dep) ==
    IF ~file.readable THEN [err |-> TRUE, file |-> file]
    ELSE IF ~file.writable THEN [err |-> TRUE, file |-> file]
    ELSE [err |-> FALSE,
          file |-> [file EXCEPT !.content = ApplyUpdate(file.content, dep)]]

CallApplyUpdate ==
    /\ aCalls < MaxApplyCalls
    /\ LET r == ApplyUpdateFile(aFile, aDep)
       IN  /\ aFile' = r.file
           /\ aErr' = r.err
           /\ aFirst' = IF aCalls = 0 THEN r.file.content ELSE aFirst
    /\ aCalls' = aCalls + 1
    /\ UNCHANGED <<aDecls, aDep>>


\* C5: ApplyUpdate is idempotent: a second call with the identical arguments
\* leaves the file content exactly as it was after the first call.
C5_ApplyIdempotent ==
    (aCalls = 2 /\ ~aErr) => aFile.content = aFirst

\* whether declaration d is the Dependency's own declaration
OwnDecl(d, dep) == DepName(d) = dep.Name /\ d.ver = dep.CurrentVersion

\* C6: ApplyUpdate for a dependency changes only that dependency's own
\* declaration: the declaration of every other dependency of the file (each
\* is one line of the file) is the same text after the call.
C6_ApplyFrame ==
    (/\ aCalls >= 1 /\ aFile.readable /\ aFile.writable
     /\ \E i \in DOMAIN aDecls : OwnDecl(aDecls[i], aDep)) =>
        /\ Len(SplitLines(aFirst)) = Len(aDecls)
        /\ \A i \in DOMAIN aDecls :
              ~OwnDecl(aDecls[i], aDep) => SplitLines(aFirst)[i] = RenderDecl(aDecls[i])

\* whether neither pattern of ApplyUpdate occurs in the content
NoPatternOccurs(content, dep) ==
    /\ ~Contains(content, dep.Name \o <<EQ, QUOTE>> \o dep.CurrentVersion \o <<QUOTE>>)
    /\ ~Contains(content, dep.Name \o <<COLON>> \o dep.CurrentVersion)

\* C20: ApplyUpdate returns an error and writes nothing when the file
\* cannot be read; it returns success and leaves the content of the file
\* as it was when neither Name="CurrentVersion" nor Name:CurrentVersion
\* occurs in the file.
C20_UnreadableFailsNoMatchSucceeds ==
    aCalls >= 1 =>
        /\ ~aFile.readable =>
              aErr /\ aFile.content = RenderDecls(aDecls)
        /\ (aFile.readable /\ NoPatternOccurs(RenderDecls(aDecls), aDep)) =>
              ~aErr /\ aFile.content = RenderDecls(aDecls)

\* C20, amended: ApplyUpdate returns an error and writes nothing when the
\* file cannot be read; it returns success and leaves the content of the
\* file as it was when neither pattern occurs in a file that can be read
\* and written.
C20_NoMatchOnWritableSucceeds ==
    aCalls >= 1 =>
        /\ ~aFile.readable =>
              aErr /\ aFile.content = RenderDecls(aDecls)
        /\ (/\ aFile.readable /\ aFile.writable
            /\ NoPatternOccurs(RenderDecls(aDecls), aDep)) =>
              ~aErr /\ aFile.content = RenderDecls(aDecls)

\* ApplyUpdate has returned success on a file that holds declarations but
\* no occurrence of either pattern
C20_Witness ==
    /\ aCalls >= 1 /\ aFile.readable /\ aFile.writable
    /\ aDecls # <<>>
    /\ NoPatternOccurs(RenderDecls(aDecls), aDep)
    /\ ~aErr /\ aFile.content = RenderDecls(aDecls)

\* -------------------------------------------- version selection on tags
VARIABLES
    vCurrent,    \* the current version given to FindNearestUpgrade, as written
    vTags,       \* the registry's tag names, as written
    vNearest,    \* the result of FindNearestUpgrade, once called
    vLatest,     \* the result of filterLatestVersion, once called
    vCalled      \* which of the two have been called

verVars == <<vCurrent, vTags, vNearest, vLatest, vCalled>>

MaxTags == 3

\* A version string as its author wrote it: the shape and the numbers.
\*   plain  1.2.0     v  v1.2.0     suffix  1.2.0-x     two  1.2     word  x
VerText(shape, tri) == [shape |-> shape, tri |-> tri]
RenderTriple(tri) == Itoa(tri[1]) \o <<DOT>> \o Itoa(tri[2]) \o <<DOT>> \o Itoa(tri[3])
RenderVer(d) ==
    CASE d.shape = "plain" -> RenderTriple(d.tri)
      [] d.shape = "v" -> <<"v">> \o RenderTriple(d.tri)
      [] d.shape = "suffix" -> RenderTriple(d.tri) \o <<"-", "x">>
      [] d.shape = "two" -> Itoa(d.tri[1]) \o <<DOT>> \o Itoa(d.tri[2])
      [] OTHER -> <<"x">>

RECURSIVE RenderVers(_)
RenderVers(ds) == IF ds = <<>> THEN <<>> ELSE <<RenderVer(ds[1])>> \o RenderVers(Tail(ds))

Triples == { <<1, 2, 0>>, <<1, 2, 1>>, <<1, 10, 0>>, <<2, 0, 0>> }
TagTexts ==
    {VerText("plain", t) : t \in Triples}
    \cup {VerText("v", <<1, 2, 1>>), VerText("suffix", <<2, 0, 0>>),
          VerText("two", <<1, 2, 0>>), VerText("word", <<0, 0, 0>>)}
CurrentTexts ==
    {VerText("plain", t) : t \in Triples}
    \cup {VerText("v", <<1, 2, 0>>), VerText("suffix", <<1, 2, 0>>),
          VerText("two", <<1, 2, 0>>), VerText("word", <<0, 0, 0>>)}

VerIdle ==
    /\ vCurrent = VerText("word", <<0, 0, 0>>) /\ vTags = <<>>
    /\ vNearest = NoTag /\ vLatest = <<>> /\ vCalled = {}

VerInit ==
    /\ vCurrent \in CurrentTexts
    /\ vTags \in SeqsUpTo(TagTexts, MaxTags)
    /\ vNearest = NoTag /\ vLatest = <<>> /\ vCalled = {}

\* the tags as getDockerHubTags and getGenericTags build them from the names
RegistryTags == TagsOf(RenderVers(vTags))

CallFindNearestUpgrade ==
    /\ "nearest" \notin vCalled
    /\ \E current \in {RenderVer(vCurrent)}, tags \in {RegistryTags} :
          vNearest' = FindNearestUpgrade(current, tags)
    /\ vCalled' = vCalled \cup {"nearest"}
    /\ UNCHANGED <<vCurrent, vTags, vLatest>>

CallFilterLatestVersion ==
    /\ "latest" \notin vCalled
    /\ \E tags \in {RegistryTags} : vLatest' \in filterLatestVersion(tags)
    /\ vCalled' = vCalled \cup {"latest"}
    /\ UNCHANGED <<vCurrent, vTags, vNearest>>

\* the order of versions: major, then minor, then patch
TriLess(a, b) ==
    \/ a[1] < b[1]
    \/ a[1] = b[1] /\ a[2] < b[2]
    \/ a[1] = b[1] /\ a[2] = b[2] /\ a[3] < b[3]

\* a text that carries three numeric components, and the tag texts whose
\* version can be ordered
HasTriple(d) == d.shape \in {"plain", "v", "suffix"}
TriOfName(name) == (CHOOSE d \in TagTexts : RenderVer(d) = name).tri
GreaterTagTexts ==
    {vTags[i] : i \in {j \in DOMAIN vTags : HasTriple(vTags[j]) /\ TriLess(vCurrent.tri, vTags[j].tri)}}

VARIABLES
    sTree,       \* the entries filepath.Walk visits, in its order
    sNext,       \* the index of the entry the next callback is for
    sDeps,       \* dependencies, the slice the callbacks append to
    sLook,       \* for each appended Dependency, the registry lookup made for it
    sErr         \* whether Walk has returned an error

scanVars == <<sTree, sNext, sDeps, sLook, sErr>>

MaxFiles == 2

\* A line as written: a comment line or not, its declarations from left to
\* right, and the declarations written in a comment that follows them on
\* the line.  A blank line is a line without declarations.
Line(comment, decls) == [comment |-> comment, decls |-> decls, after |-> <<>>]
LineWithComment(decls, after) == [comment |-> FALSE, decls |-> decls, after |-> after]

RECURSIVE RenderDeclsOnLine(_)
RenderDeclsOnLine(ds) ==
    IF ds = <<>> THEN <<>>
    ELSE IF Len(ds) = 1 THEN RenderDecl(ds[1])
    ELSE RenderDecl(ds[1]) \o <<SP>> \o RenderDeclsOnLine(Tail(ds))

RenderLine(l) ==
    (IF l.comment THEN <<HASH, SP>> ELSE <<>>) \o RenderDeclsOnLine(l.decls)
    \o (IF l.after = <<>> THEN <<>> ELSE <<SP, HASH, SP>> \o RenderDeclsOnLine(l.after))

RECURSIVE RenderLines(_)
RenderLines(ls) ==
    IF ls = <<>> THEN <<>> ELSE RenderLine(ls[1]) \o <<NL>> \o RenderLines(Tail(ls))

VarRef == <<DOLLAR, "x", VERSION>>

\* the build-images.sh files of the scanned trees
ScanFiles ==
    { \* a version variable, a commented-out one, a line of images of which
      \* the last has a variable for its tag
      << Line(FALSE, <<VarDecl(<<"x">>, <<"1">>)>>),
         Line(TRUE, <<VarDecl(<<"x">>, <<"9">>)>>),
         Line(FALSE, <<ImgDecl(<<"postgres">>, <<"1">>), ImgDecl(<<"redis">>, <<"7">>),
                       ImgDecl(<<"x">>, VarRef)>>) >>,
      \* a version variable of a known application, an image with a variable
      \* tag before one with a literal tag
      << Line(FALSE, <<VarDecl(<<"postgres">>, <<"1">>)>>),
         Line(FALSE, <<>>),
         Line(FALSE, <<ImgDecl(<<"x">>, VarRef), ImgDecl(<<"redis">>, <<"7">>)>>) >>,
      \* a version variable whose value is a variable reference
      << Line(FALSE, <<VarDecl(<<"postgres">>, VarRef)>>) >>,
      \* the same image on two lines
      << Line(FALSE, <<ImgDecl(<<"redis">>, <<"7">>)>>),
         Line(FALSE, <<ImgDecl(<<"redis">>, <<"7">>)>>) >>,
      \* a version variable followed on its line by a comment that holds an
      \* image reference, and a comment line
      << LineWithComment(<<VarDecl(<<"x">>, <<"1">>)>>, <<ImgDecl(<<"redis">>, <<"7">>)>>),
         Line(TRUE, <<ImgDecl(<<"postgres">>, <<"1">>)>>) >>,
      \* an empty file
      << >> }

\* A tree entry: a build-images.sh file that opens or not, or an entry for
\* which Walk hands the callback an error.
ScanEntries ==
    {[kind |-> "script", readable |-> r, lines |-> f] : r \in BOOLEAN, f \in ScanFiles}
    \cup {[kind |-> "broken", readable |-> FALSE, lines |-> <<>>]}

T121 == RenderTriple(<<1, 2, 1>>)
T200 == RenderTriple(<<2, 0, 0>>)
ScanResponses ==
    { Response("neterr", <<>>), Response("non200", <<>>), Response("badbody", <<>>),
      Response("ok", <<>>), Response("ok", <<T200>>), Response("ok", <<T121, T200>>) }

ScanIdle ==
    /\ sTree = <<>> /\ sNext = 0 /\ sDeps = <<>> /\ sLook = <<>> /\ sErr = FALSE

ScanInit ==
    /\ sTree \in SeqsUpTo(ScanEntries, MaxFiles)
    /\ sNext = 1 /\ sDeps = <<>> /\ sLook = <<>> /\ sErr = FALSE

\* the name under which the walked files are known: their place in the tree
PathOf(i) == i

\* the declarations of a file on the lines that are not comment lines (the
\* text of such a line is matched whole, its trailing comment included)
\* and, for an image, with a literal tag: the version variable of a line,
\* then its images
RECURSIVE DeclsOfLines(_)
DeclsOfLines(ls) ==
    IF ls = <<>> THEN <<>>
    ELSE (IF ls[1].comment THEN <<>>
          ELSE SelectSeq(ls[1].decls \o ls[1].after, LAMBDA d : d.kind = "var")
               \o SelectSeq(ls[1].decls \o ls[1].after,
                            LAMBDA d : d.kind = "img" /\ ~HasPrefix(d.ver, <<DOLLAR>>)))
         \o DeclsOfLines(Tail(ls))

DeclNeedsLookup(d) == d.kind = "img" \/ d.name \in knownApps

\* for each of the declarations, the answer its lookup got
RECURSIVE LookupsOf(_, _)
LookupsOf(ds, oracle) ==
    IF ds = <<>> THEN <<>>
    ELSE IF DeclNeedsLookup(ds[1])
         THEN <<[decl |-> ds[1], asked |-> TRUE,
                 failed |-> oracle[1].status # "ok" \/ oracle[1].tags = <<>>,
                 tags |-> IF oracle[1].status = "ok" THEN oracle[1].tags ELSE <<>>]>>
              \o LookupsOf(Tail(ds), Tail(oracle))
         ELSE <<[decl |-> ds[1], asked |-> FALSE, failed |-> FALSE, tags |-> <<>>]>>
              \o LookupsOf(Tail(ds), oracle)

\* the callback Scan gives filepath.Walk, for one entry: broken when Walk
\* hands it an error, else a build-images.sh file that opens or not.  Gives
\* the dependencies after it, the registry answers left over, and whether
\* it returns an error (which ends the walk).
WalkFn(broken, readable, content, path, oracle, deps) ==
    IF broken THEN [deps |-> deps, oracle |-> oracle, err |-> TRUE]
    ELSE IF ~readable THEN [deps |-> deps, oracle |-> oracle, err |-> FALSE]
    ELSE LET r == scanBuildImagesFile(content, path, oracle)
         IN  [deps |-> deps \o r.deps, oracle |-> r.oracle, err |-> FALSE]

\* one callback of the walk
WalkStep ==
    /\ sNext \in DOMAIN sTree /\ ~sErr
    /\ LET e == sTree[sNext]
           n == IF e.kind = "script" /\ e.readable
                THEN Len(SelectSeq(DeclsOfLines(e.lines), DeclNeedsLookup)) ELSE 0
       IN  \E oracle \in [1..n -> ScanResponses] :
              LET r == WalkFn(e.kind = "broken", e.readable, RenderLines(e.lines),
                              PathOf(sNext), oracle, sDeps)
              IN  /\ sDeps' = r.deps
                  /\ sErr' = r.err
                  /\ sLook' = IF e.kind = "script" /\ e.readable
                              THEN sLook \o LookupsOf(DeclsOfLines(e.lines), oracle)
                              ELSE sLook
    /\ sNext' = sNext + 1
    /\ UNCHANGED sTree


\* the walk is over: every entry had its callback, or one returned an error
ScanOver == sErr \/ sNext > Len(sTree)

\* the entries whose callbacks ran without an error
WalkedEntries == {i \in DOMAIN sTree : i < sNext /\ sTree[i].kind = "script"}

\* the declarations the scan is to report, in walk order: those of the files
\* that opened
RECURSIVE DeclsOfTree(_, _)
DeclsOfTree(tree, upto) ==
    IF upto = 0 THEN <<>>
    ELSE DeclsOfTree(tree, upto - 1)
         \o (IF tree[upto].kind = "script" /\ tree[upto].readable
             THEN DeclsOfLines(tree[upto].lines) ELSE <<>>)

\* whether the Dependency stands for a version variable (the image names of
\* the scanned files do not end in _version)
IsVarDep(dep) == dep.Name # <<>> /\ dep.Name[Len(dep.Name)] = VERSION

\* C7: for a bare image reference, the LatestVersion the scan attaches is the
\* greatest version, in major/minor/patch order, among the registry's tags
\* of the image.
C7_ScanAttachesAbsoluteLatest ==
    \A j \in DOMAIN sDeps :
        (sLook[j].decl.kind = "img" /\ ~sLook[j].failed) =>
            \A i \in DOMAIN sLook[j].tags :
                ~TriLess(TriOfName(sDeps[j].LatestVersion), TriOfName(sLook[j].tags[i]))

\* C9: a failed registry lookup does not abort the scan: the dependency is
\* still reported, with LatestVersion = CurrentVersion, and so are the
\* dependencies of the remaining lines and files.
C9_LookupFailureFallsBack ==
    /\ Len(sDeps) = Len(sLook)
    /\ Len(sDeps) = Len(DeclsOfTree(sTree, sNext - 1))
    /\ \A j \in DOMAIN sDeps :
          /\ sDeps[j].Name = DepName(DeclsOfTree(sTree, sNext - 1)[j])
          /\ sDeps[j].CurrentVersion = DeclsOfTree(sTree, sNext - 1)[j].ver
          /\ sLook[j].failed => sDeps[j].LatestVersion = sDeps[j].CurrentVersion
    /\ sErr => sTree[sNext - 1].kind = "broken"

\* a lookup failed and a later line and a later file still gave dependencies
C9_Witness ==
    /\ ScanOver /\ ~sErr /\ Len(sTree) = 2
    /\ \E j \in DOMAIN sDeps :
          /\ sLook[j].asked /\ sLook[j].failed /\ sDeps[j].File = PathOf(1)
          /\ sDeps[j].LatestVersion = sDeps[j].CurrentVersion
          /\ \E k \in DOMAIN sDeps :
                k > j /\ sDeps[k].File = PathOf(1) /\ ~sLook[k].failed /\ sLook[k].asked
          /\ \E k \in DOMAIN sDeps : sDeps[k].File = PathOf(2)

\* C10 as stated: Scan never returns a Dependency whose CurrentVersion is a
\* variable reference.
C10_NoVariableReference ==
    \A j \in DOMAIN sDeps : ~HasPrefix(sDeps[j].CurrentVersion, <<DOLLAR>>)

\* the image declarations, outside comments, of the files that opened
WalkedImageDecls ==
    UNION { UNION { { [file |-> i, decl |-> sTree[i].lines[m].decls[k]] :
                        k \in {k2 \in DOMAIN sTree[i].lines[m].decls :
                                  sTree[i].lines[m].decls[k2].kind = "img"} } :
                    m \in {m2 \in DOMAIN sTree[i].lines : ~sTree[i].lines[m2].comment} } :
            i \in {i2 \in WalkedEntries : sTree[i2].readable} }

\* C10, amended: Scan never returns a Dependency for an image reference
\* whose tag begins with `$`, and the images with a literal tag on the same
\* line are still reported.  (A version variable whose quoted value is a
\* variable reference is reported, with that reference as CurrentVersion.)
C10_NoVariableTagImage ==
    /\ \A j \in DOMAIN sDeps :
          ~IsVarDep(sDeps[j]) => ~HasPrefix(sDeps[j].CurrentVersion, <<DOLLAR>>)
    /\ \A x \in WalkedImageDecls :
          IF HasPrefix(x.decl.ver, <<DOLLAR>>)
          THEN ~\E j \in DOMAIN sDeps :
                   sDeps[j].File = PathOf(x.file) /\ sDeps[j].Name = x.decl.name
          ELSE \E j \in DOMAIN sDeps :
                   /\ sDeps[j].File = PathOf(x.file) /\ sDeps[j].Name = x.decl.name
                   /\ sDeps[j].CurrentVersion = x.decl.ver

\* a line with a variable-tagged image before a literal-tagged one was
\* scanned: the first gave no Dependency, the second did
C10_Witness ==
    \E i \in WalkedEntries :
        /\ sTree[i].readable
        /\ \E m \in DOMAIN sTree[i].lines :
              /\ Len(sTree[i].lines[m].decls) = 2
              /\ HasPrefix(sTree[i].lines[m].decls[1].ver, <<DOLLAR>>)
              /\ \E j \in DOMAIN sDeps :
                    /\ sDeps[j].File = PathOf(i)
                    /\ sDeps[j].Name = sTree[i].lines[m].decls[2].name
        /\ ~\E j \in DOMAIN sDeps : sDeps[j].File = PathOf(i) /\ sDeps[j].Name = <<"x">>



\* C12, for DockerUpdater.Scan: an image string that appears more than once
\* in a scanned file is reported once: the Dependency list holds at most
\* one Dependency per (File, image:tag).
C12_OneDependencyPerImage ==
    \A j \in DOMAIN sDeps, k \in DOMAIN sDeps :
        (/\ j < k /\ ~IsVarDep(sDeps[j]) /\ ~IsVarDep(sDeps[k])
         /\ sDeps[j].File = sDeps[k].File)
            => ~(/\ sDeps[j].Name = sDeps[k].Name
                 /\ sDeps[j].CurrentVersion = sDeps[k].CurrentVersion)

\* the declarations of the files that opened which are written in a
\* comment: on a comment line, or after the # that follows a line's text
CommentedDecls ==
    UNION { UNION { { [file |-> i, decl |-> d] :
                        d \in {sTree[i].lines[m].after[k] :
                                  k \in DOMAIN sTree[i].lines[m].after}
                             \cup (IF sTree[i].lines[m].comment
                                   THEN {sTree[i].lines[m].decls[k] :
                                           k \in DOMAIN sTree[i].lines[m].decls}
                                   ELSE {}) } :
                    m \in DOMAIN sTree[i].lines } :
            i \in {i2 \in WalkedEntries : sTree[i2].readable} }

\* the declarations of the files that opened which are written outside
\* comments
UncommentedDecls ==
    UNION { UNION { { [file |-> i, decl |-> sTree[i].lines[m].decls[k]] :
                        k \in DOMAIN sTree[i].lines[m].decls } :
                    m \in {m2 \in DOMAIN sTree[i].lines : ~sTree[i].lines[m2].comment} } :
            i \in {i2 \in WalkedEntries : sTree[i2].readable} }

\* C21: Scan ignores commented-out declarations: a version assignment or
\* image reference written after a # gives no Dependency (every Dependency
\* is that of a declaration written outside comments), while the
\* uncommented declarations with a literal value are reported.
C21_CommentedDeclarationsIgnored ==
    /\ \A j \in DOMAIN sDeps :
          \E x \in UncommentedDecls :
              /\ sDeps[j].File = PathOf(x.file) /\ sDeps[j].Name = DepName(x.decl)
              /\ sDeps[j].CurrentVersion = x.decl.ver
    /\ \A x \in UncommentedDecls :
          ~HasPrefix(x.decl.ver, <<DOLLAR>>) =>
              \E j \in DOMAIN sDeps :
                  /\ sDeps[j].File = PathOf(x.file) /\ sDeps[j].Name = DepName(x.decl)
                  /\ sDeps[j].CurrentVersion = x.decl.ver

\* ----------------------------------- internal/files: FindDockerImages
\* the registries imageRegex starts on, each atom with its slash
Registries == {DOCKER, GHCR}

\* stripComments: on every line, the text up to the first # that is
\* outside single and double quotes.  inS, inD: inside quotes; skip: past
\* the # of the line.
RECURSIVE StripFromKeepingFlags(_, _, _, _)
StripFromKeepingFlags(s, inS, inD, skip) ==
    IF s = <<>> THEN <<>>
    ELSE IF s[1] = NL THEN <<NL>> \o StripFromKeepingFlags(Tail(s), inS, inD, FALSE)
    ELSE IF skip THEN StripFromKeepingFlags(Tail(s), inS, inD, TRUE)
    ELSE IF s[1] = SQUOTE
         THEN <<SQUOTE>> \o StripFromKeepingFlags(Tail(s), IF inD THEN inS ELSE ~inS, inD, FALSE)
    ELSE IF s[1] = QUOTE
         THEN <<QUOTE>> \o StripFromKeepingFlags(Tail(s), inS, IF inS THEN inD ELSE ~inD, FALSE)
    ELSE IF s[1] = HASH /\ ~inS /\ ~inD THEN StripFromKeepingFlags(Tail(s), inS, inD, TRUE)
    ELSE <<s[1]>> \o StripFromKeepingFlags(Tail(s), inS, inD, FALSE)

RECURSIVE StripFrom(_, _, _, _)
StripFrom(s, inS, inD, skip) ==
    IF s = <<>> THEN <<>>
    ELSE IF s[1] = NL THEN <<NL>> \o StripFrom(Tail(s), FALSE, FALSE, FALSE)
    ELSE IF skip THEN StripFrom(Tail(s), inS, inD, TRUE)
    ELSE IF s[1] = SQUOTE
         THEN <<SQUOTE>> \o StripFrom(Tail(s), IF inD THEN inS ELSE ~inS, inD, FALSE)
    ELSE IF s[1] = QUOTE
         THEN <<QUOTE>> \o StripFrom(Tail(s), inS, IF inS THEN inD ELSE ~inD, FALSE)
    ELSE IF s[1] = HASH /\ ~inS /\ ~inD THEN StripFrom(Tail(s), inS, inD, TRUE)
    ELSE <<s[1]>> \o StripFrom(Tail(s), inS, inD, FALSE)

stripComments(content) == StripFrom(content, FALSE, FALSE, FALSE)

\* varRegex = (?m)^([A-Za-z_][A-Za-z0-9_]*)=(?:"([^"]+)"|([^\s#]+)) tried at
\* the head of s: whether it matches, the key, the value (group 2, or group
\* 3 when group 2 is empty) and the length of the match
VarMatchAt(s) ==
    LET n == IF s # <<>> /\ s[1] \in Letters \cup {VERSION}
             THEN 1 + RunLen(Tail(s), Letters \cup Digits \cup {VERSION}) ELSE 0
        after == Drop(s, n + 1)
        q == IF after # <<>> /\ after[1] = QUOTE
             THEN RunLen(Tail(after), AllAtoms \ {QUOTE}) ELSE 0
        quoted == q > 0 /\ Len(after) >= q + 2 /\ after[q + 2] = QUOTE
        u == RunLen(after, AllAtoms \ {SP, "\t", NL, HASH})
    IN  IF n = 0 \/ Len(s) <= n \/ s[n + 1] # EQ
        THEN [found |-> FALSE, key |-> <<>>, val |-> <<>>, len |-> 0]
        ELSE IF quoted
        THEN [found |-> TRUE, key |-> Take(s, n), val |-> SubSeq(after, 2, q + 1),
              len |-> n + 1 + q + 2]
        ELSE IF u > 0
        THEN [found |-> TRUE, key |-> Take(s, n), val |-> Take(after, u), len |-> n + 1 + u]
        ELSE [found |-> FALSE, key |-> <<>>, val |-> <<>>, len |-> 0]

\* vars[key] = val as it would be if the first assignment of a key won
SetVarKeepingFirst(vars, key, val) ==
    [k \in DOMAIN vars \cup {key} |-> IF k \in DOMAIN vars THEN vars[k] ELSE val]

\* vars[key] = val
SetVar(vars, key, val) ==
    [k \in DOMAIN vars \cup {key} |-> IF k = key THEN val ELSE vars[k]]

\* the matches of varRegex from left to right, a later assignment of a key
\* replacing an earlier one; bol: s starts a line
RECURSIVE ExtractFrom(_, _, _)
ExtractFrom(s, bol, vars) ==
    IF s = <<>> THEN vars
    ELSE IF bol /\ VarMatchAt(s).found
         THEN ExtractFrom(Drop(s, VarMatchAt(s).len), FALSE,
                          SetVar(vars, VarMatchAt(s).key, VarMatchAt(s).val))
         ELSE ExtractFrom(Tail(s), s[1] = NL, vars)

extractBashVars(content) == ExtractFrom(content, TRUE, <<>>)

\* imageRegex = (docker\.io|ghcr\.io|quay\.io|registry\.k8s\.io)
\*              /[a-zA-Z0-9._/-]+(?::[^\s"]+)?   with FindAllString
RECURSIVE ImageStrings(_)
ImageStrings(s) ==
    IF s = <<>> THEN <<>>
    ELSE IF s[1] \notin Registries THEN ImageStrings(Tail(s))
    ELSE LET rest == Tail(s)
             n == RunLen(rest, Letters \cup Digits \cup Registries \cup {VERSION, DOT, "-"})
             after == Drop(rest, n)
             t == IF after # <<>> /\ after[1] = COLON
                  THEN RunLen(Tail(after), AllAtoms \ {SP, "\t", NL, QUOTE}) ELSE 0
             len == 1 + n + (IF t > 0 THEN 1 + t ELSE 0)
         IN  IF n = 0 THEN ImageStrings(Tail(s))
             ELSE <<Take(s, len)>> \o ImageStrings(Drop(s, len))

\* resolveVars: every ${name} whose name is in vars gives way to its value,
\* the others stay
RECURSIVE resolveVars(_, _)
resolveVars(input, vars) ==
    IF input = <<>> THEN <<>>
    ELSE LET n == IF Len(input) >= 2 /\ input[1] = DOLLAR /\ input[2] = LBRACE
                  THEN RunLen(Drop(input, 2), Letters \cup Digits \cup {VERSION}) ELSE 0
             isRef == n > 0 /\ Len(input) >= n + 3 /\ input[n + 3] = RBRACE
             name == SubSeq(input, 3, n + 2)
         IN  IF ~isRef THEN <<input[1]>> \o resolveVars(Tail(input), vars)
             ELSE (IF name \in DOMAIN vars THEN vars[name] ELSE Take(input, n + 3))
                  \o resolveVars(Drop(input, n + 3), vars)

DockerImage(registry, repo, tag, raw) ==
    [Registry |-> registry, Repo |-> repo, Tag |-> tag, Raw |-> raw]

\* parseImage, of a string that starts with a registry and its slash
parseImage(raw) ==
    LET repoAndTag == Tail(raw)
        c == RunLen(repoAndTag, AllAtoms \ {COLON})
    IN  IF c < Len(repoAndTag)
        THEN DockerImage(<<raw[1]>>, Take(repoAndTag, c), Drop(repoAndTag, c + 1), raw)
        ELSE DockerImage(<<raw[1]>>, repoAndTag, <<"latest">>, raw)

\* the body of the callback for a file that was read: imageSet after it
FileImages(data, imageSet) ==
    LET content == stripComments(data)
        vars == extractBashVars(content)
        matches == ImageStrings(content)
    IN  imageSet \cup {parseImage(resolveVars(matches[i], vars)) : i \in DOMAIN matches}

\* -------------------------------------- FindDockerImages on a directory
VARIABLES
    fTree,       \* the entries filepath.WalkDir visits, in its order
    fNext,       \* the index of the entry the next callback is for
    fSet,        \* imageSet, as the set of its values
    fErr,        \* whether WalkDir has returned an error
    fRet         \* what FindDockerImages returned

findVars == <<fTree, fNext, fSet, fErr, fRet>>

\* the contents of the files of the walked directories
\* v=7 / docker.io/redis:${v}
FindFileAssigned ==
    <<"v", EQ, "7", NL, DOCKER, "redis", COLON, DOLLAR, LBRACE, "v", RBRACE, NL>>
\* docker.io/postgres:${x}, x assigned nowhere
FindFileUnassigned ==
    <<DOCKER, "postgres", COLON, DOLLAR, LBRACE, "x", RBRACE, NL>>
\* docker.io/redis:7 / ghcr.io/x / docker.io/redis:7 # docker.io/postgres:1
FindFileRepeated ==
    <<DOCKER, "redis", COLON, "7", NL, GHCR, "x", NL,
      DOCKER, "redis", COLON, "7", SP, HASH, SP, DOCKER, "postgres", COLON, "1", NL>>
\* x_version="1" # first / docker.io/postgres:${x_version} 'docker.io/redis:7#'
FindFileQuoted ==
    <<"x", VERSION, EQ, QUOTE, "1", QUOTE, SP, HASH, SP, "v", EQ, "2", NL,
      DOCKER, "postgres", COLON, DOLLAR, LBRACE, "x", VERSION, RBRACE, SP,
      SQUOTE, DOCKER, "redis", COLON, "7", HASH, SQUOTE, NL>>
FindFiles == {FindFileAssigned, FindFileUnassigned, FindFileRepeated, FindFileQuoted, <<>>}

\* An entry of the walk: a directory, a file (with its base name, whether
\* os.ReadFile reads it, and its content), or an entry for which WalkDir
\* hands the callback an error.
FindEntries ==
    {[kind |-> "file", name |-> "build-images.sh", readable |-> r, data |-> f] :
        r \in BOOLEAN, f \in FindFiles}
    \cup {[kind |-> "file", name |-> "README.md", readable |-> TRUE, data |-> FindFileRepeated],
          [kind |-> "dir", name |-> "build-images.sh", readable |-> FALSE, data |-> <<>>],
          [kind |-> "broken", name |-> "", readable |-> FALSE, data |-> <<>>]}

\* the fileNames the command passes
FileNames == {"build-images.sh"}

NoImages == [images |-> {}, err |-> FALSE, returned |-> FALSE]

FindIdle ==
    /\ fTree = <<>> /\ fNext = 0 /\ fSet = {} /\ fErr = FALSE /\ fRet = NoImages

FindInit ==
    /\ fTree \in SeqsUpTo(FindEntries, MaxFiles)
    /\ fNext = 1 /\ fSet = {} /\ fErr = FALSE /\ fRet = NoImages

\* the callback FindDockerImages gives filepath.WalkDir, for one entry:
\* imageSet after it, and whether it returns an error (which ends the walk)
FindWalkFn(e, fileNames, imageSet) ==
    IF e.kind = "broken" THEN [imageSet |-> imageSet, err |-> TRUE]
    ELSE IF e.kind = "dir" THEN [imageSet |-> imageSet, err |-> FALSE]
    ELSE IF e.name \notin fileNames THEN [imageSet |-> imageSet, err |-> FALSE]
    ELSE IF ~e.readable THEN [imageSet |-> imageSet, err |-> TRUE]
    ELSE [imageSet |-> FileImages(e.data, imageSet), err |-> FALSE]

\* one callback of the walk
FindWalkStep ==
    /\ fNext \in DOMAIN fTree /\ ~fErr /\ ~fRet.returned
    /\ \E r \in {FindWalkFn(fTree[fNext], FileNames, fSet)} :
          /\ fSet' = r.imageSet
          /\ fErr' = r.err
    /\ fNext' = fNext + 1
    /\ UNCHANGED <<fTree, fRet>>

\* the walk is over: FindDockerImages returns the images of imageSet, or
\* nil and the error of the walk
FindReturn ==
    /\ (fErr \/ fNext > Len(fTree)) /\ ~fRet.returned
    /\ fRet' = [images |-> IF fErr THEN {} ELSE fSet, err |-> fErr, returned |-> TRUE]
    /\ UNCHANGED <<fTree, fNext, fSet, fErr>>

\* the files whose callback read them and added their images
FoundFiles ==
    {i \in DOMAIN fTree : /\ i < fNext /\ fTree[i].kind = "file"
                          /\ fTree[i].name \in FileNames /\ fTree[i].readable}

\* C11: FindDockerImages drops every image reference whose tag is, after
\* the resolution of the variables, still a variable reference (the $
\* remains): no image with such a tag is in its result, whereas a reference
\* whose variable is assigned in the file is reported with the value as tag.
C11_UnresolvedTagDropped ==
    /\ \A img \in fSet \cup fRet.images : ~Contains(img.Tag, <<DOLLAR>>)
    /\ \A i \in FoundFiles :
          fTree[i].data = FindFileAssigned =>
              DockerImage(<<DOCKER>>, <<"redis">>, <<"7">>,
                          <<DOCKER, "redis", COLON, "7">>) \in fSet

\* C19: a file that cannot be read is skipped and does not end the walk of
\* the tree: when no directory entry itself is in error, FindDockerImages
\* returns no error and its result holds the images of every matching file
\* that can be read.
C19_UnreadableFileSkipped ==
    (fRet.returned /\ \A i \in DOMAIN fTree : fTree[i].kind # "broken") =>
        /\ ~fRet.err
        /\ \A i \in DOMAIN fTree :
              (/\ fTree[i].kind = "file" /\ fTree[i].name \in FileNames
               /\ fTree[i].readable) =>
                  FileImages(fTree[i].data, {}) \subseteq fRet.images

\* ------------------- stripComments, extractBashVars, resolveVars on a text
VARIABLES
    tCase,       \* "text": data is any text; "vars": data is the rendering of tLines
    tLines,      \* the lines the file was written with (never read by the code)
    tPieces,     \* the pieces the string to resolve was written with (never read)
    tData,       \* the content of the file
    tRaw,        \* the string given to resolveVars
    tContent,    \* stripComments(data)
    tVars,       \* extractBashVars(content)
    tResolved,   \* resolveVars(raw, vars)
    tCalled      \* the calls made so far

textVars == <<tCase, tLines, tPieces, tData, tRaw, tContent, tVars, tResolved, tCalled>>

MaxText == 5
MaxVarLines == 3
MaxPieces == 2

\* the characters of the texts given to stripComments
TextAtoms == {"x", HASH, SQUOTE, QUOTE, NL}

\* A line of a file of assignments, as written: an assignment at the start
\* of the line (its value quoted or not), an assignment after a blank, or
\* an assignment in a comment.
VarLine(kind, key, val) == [kind |-> kind, key |-> key, val |-> val]
VarLines ==
    { VarLine("quoted", <<"x">>, <<"1">>), VarLine("plain", <<"x">>, <<"2">>),
      VarLine("plain", <<"v">>, <<"1">>), VarLine("quoted", <<"v">>, <<"2">>),
      VarLine("indented", <<"x">>, <<"3">>), VarLine("commented", <<"x">>, <<"4">>) }

RenderVarLine(l) ==
    (IF l.kind = "indented" THEN <<SP>>
     ELSE IF l.kind = "commented" THEN <<HASH>> ELSE <<>>)
    \o l.key \o <<EQ>>
    \o (IF l.kind = "quoted" THEN <<QUOTE>> \o l.val \o <<QUOTE>> ELSE l.val)

RECURSIVE RenderVarLines(_)
RenderVarLines(ls) ==
    IF ls = <<>> THEN <<>> ELSE RenderVarLine(ls[1]) \o <<NL>> \o RenderVarLines(Tail(ls))

\* A piece of a string to resolve: a literal, a reference ${name}, or a
\* reference $name without braces.
Pieces ==
    { [kind |-> "lit", text |-> <<"redis">>], [kind |-> "ref", text |-> <<"x">>],
      [kind |-> "ref", text |-> <<"postgres">>], [kind |-> "bare", text |-> <<"x">>] }

RenderPiece(p) ==
    IF p.kind = "ref" THEN <<DOLLAR, LBRACE>> \o p.text \o <<RBRACE>>
    ELSE IF p.kind = "bare" THEN <<DOLLAR>> \o p.text
    ELSE p.text

RECURSIVE RenderPieces(_)
RenderPieces(ps) ==
    IF ps = <<>> THEN <<>> ELSE RenderPiece(ps[1]) \o RenderPieces(Tail(ps))

TextIdle ==
    /\ tCase = "" /\ tLines = <<>> /\ tPieces = <<>> /\ tData = <<>> /\ tRaw = <<>>
    /\ tContent = <<>> /\ tVars = <<>> /\ tResolved = <<>> /\ tCalled = {}

TextInit ==
    /\ \/ /\ tCase = "text"
          /\ tData \in SeqsUpTo(TextAtoms, MaxText)
          /\ tLines = <<>> /\ tPieces = <<>>
       \/ /\ tCase = "vars"
          /\ tLines \in SeqsUpTo(VarLines, MaxVarLines)
          /\ tPieces \in SeqsUpTo(Pieces, MaxPieces)
          /\ tData = RenderVarLines(tLines)
    /\ tRaw = RenderPieces(tPieces)
    /\ tContent = <<>> /\ tVars = <<>> /\ tResolved = <<>> /\ tCalled = {}

\* content := stripComments(string(data))
CallStripComments ==
    /\ tCalled = {}
    /\ tContent' = stripComments(tData)
    /\ tCalled' = {"strip"}
    /\ UNCHANGED <<tCase, tLines, tPieces, tData, tRaw, tVars, tResolved>>

\* vars := extractBashVars(content)
CallExtractBashVars ==
    /\ tCalled = {"strip"}
    /\ tVars' = extractBashVars(tContent)
    /\ tCalled' = {"strip", "extract"}
    /\ UNCHANGED <<tCase, tLines, tPieces, tData, tRaw, tContent, tResolved>>

\* resolved := resolveVars(raw, vars)
CallResolveVars ==
    /\ tCalled = {"strip", "extract"}
    /\ tResolved' = resolveVars(tRaw, tVars)
    /\ tCalled' = {"strip", "extract", "resolve"}
    /\ UNCHANGED <<tCase, tLines, tPieces, tData, tRaw, tContent, tVars>>

\* strings.Split(s, "\n")
RECURSIVE SplitNL(_)
SplitNL(s) ==
    LET n == RunLen(s, AllAtoms \ {NL})
    IN  IF n = Len(s) THEN <<s>> ELSE <<Take(s, n)>> \o SplitNL(Drop(s, n + 1))

\* whether the position after the first k characters of the line is outside
\* single and double quotes: a quote of one kind opens or closes a string
\* unless it stands inside a string of the other kind
RECURSIVE QuoteFlags(_, _)
QuoteFlags(line, k) ==
    IF k = 0 THEN [inSingle |-> FALSE, inDouble |-> FALSE]
    ELSE LET q == QuoteFlags(line, k - 1)
         IN  IF line[k] = SQUOTE /\ ~q.inDouble THEN [q EXCEPT !.inSingle = ~q.inSingle]
             ELSE IF line[k] = QUOTE /\ ~q.inSingle THEN [q EXCEPT !.inDouble = ~q.inDouble]
             ELSE q

\* the positions of the line's # that are outside both kinds of quote
CommentMarks(line) ==
    {k \in DOMAIN line :
        /\ line[k] = HASH
        /\ ~QuoteFlags(line, k - 1).inSingle /\ ~QuoteFlags(line, k - 1).inDouble}

MinOf(S) == CHOOSE k \in S : \A j \in S : k <= j

\* C22: stripComments keeps every line, each cut at its first # that is
\* outside single and double quotes (the quote flags being cleared at the
\* start of the line) and whole when it has no such #: a # inside a quoted
\* string of the line is never removed, and the number of lines is unchanged.
C22_StripCommentsPerLine ==
    ("strip" \in tCalled) =>
        /\ Len(SplitNL(tContent)) = Len(SplitNL(tData))
        /\ \A i \in DOMAIN SplitNL(tData) :
              LET line == SplitNL(tData)[i]
              IN  SplitNL(tContent)[i] =
                      IF CommentMarks(line) = {} THEN line
                      ELSE Take(line, MinOf(CommentMarks(line)) - 1)

\* a text of two lines was stripped: the first line kept a # inside quotes
\* or an open quote, and the second line lost its comment
C22_Witness ==
    /\ "strip" \in tCalled /\ tCase = "text"
    /\ Len(SplitNL(tData)) = 2
    /\ Contains(SplitNL(tContent)[1], <<HASH>>)
    /\ Contains(SplitNL(tData)[2], <<HASH>>)
    /\ ~Contains(SplitNL(tContent)[2], <<HASH>>)

\* the lines of the file that assign the key at the start of a line,
\* outside comments
AssignmentsOf(ls, key) ==
    {i \in DOMAIN ls : ls[i].kind \in {"quoted", "plain"} /\ ls[i].key = key}

AssignedKeys(ls) == {ls[i].key : i \in {j \in DOMAIN ls : AssignmentsOf(ls, ls[j].key) # {}}}

\* the value of the last of the key's assignments
LastValue(ls, key) ==
    ls[CHOOSE i \in AssignmentsOf(ls, key) : \A j \in AssignmentsOf(ls, key) : j <= i].val

\* the pieces with every ${name} of an assigned name replaced by the value
\* of its last assignment, and every other piece as written
RECURSIVE ResolvedPieces(_, _)
ResolvedPieces(ps, ls) ==
    IF ps = <<>> THEN <<>>
    ELSE (IF ps[1].kind = "ref" /\ ps[1].text \in AssignedKeys(ls)
          THEN LastValue(ls, ps[1].text) ELSE RenderPiece(ps[1]))
         \o ResolvedPieces(Tail(ps), ls)

\* C23: the variable table holds, for each name assigned at the start of a
\* line of the comment-stripped file, the value of its last assignment;
\* resolution replaces every ${NAME} whose NAME is in the table by that
\* value and leaves every ${NAME} of an unknown NAME, and all other text,
\* unchanged.
C23_LastAssignmentResolves ==
    (tCase = "vars" /\ "extract" \in tCalled) =>
        /\ DOMAIN tVars = AssignedKeys(tLines)
        /\ \A k \in DOMAIN tVars : tVars[k] = LastValue(tLines, k)
        /\ "resolve" \in tCalled => tResolved = ResolvedPieces(tPieces, tLines)

\* a name assigned twice with different values and referenced, next to a
\* reference to a name assigned nowhere, was resolved
C23_Witness ==
    /\ tCase = "vars" /\ "resolve" \in tCalled
    /\ Cardinality(AssignmentsOf(tLines, <<"x">>)) = 2
    /\ \E i \in AssignmentsOf(tLines, <<"x">>) : tLines[i].val # LastValue(tLines, <<"x">>)
    /\ tPieces = <<[kind |-> "ref", text |-> <<"x">>], [kind |-> "ref", text |-> <<"postgres">>]>>
    /\ tResolved = LastValue(tLines, <<"x">>) \o <<DOLLAR, LBRACE, "postgres", RBRACE>>

\* ------------------------------ internal/images: GetImageUpdates, listing
VARIABLES
    gRegistry,   \* the registry hostname given to GetImageUpdates
    gPages,      \* the registry's answers: gPages[u] answers the request for url u
    gPhase,      \* "idle", "paging" (in the loop of getDockerHubTags) or "done"
    gUrl,        \* url of getDockerHubTags: the page to request next, 0 for ""
    gTags,       \* tags of getDockerHubTags
    gFetched,    \* the urls requested so far, in order
    gList,       \* what getDockerHubTags returned
    gRet         \* what GetImageUpdates returned

tagVars == <<gRegistry, gPages, gPhase, gUrl, gTags, gFetched, gList, gRet>>

MaxPages == 2
MaxFetches == 3

\* the registry hostnames given: the four of baseURLGenerator and another
RegistryHosts == {"docker.io", "ghcr.io", "quay.io", "registry.k8s.io", "gcr.io"}

\* the tag names of a page
PageNames == { <<>>, <<RenderTriple(<<1, 2, 0>>)>>, <<RenderTriple(<<2, 0, 0>>)>>, <<<<"redis">>>> }

\* An answer to a request: status is "neterr" (client.Get fails), "readerr"
\* (io.ReadAll fails), "badjson" (json.Unmarshal fails) or "ok"; names are
\* the tag names of the page and next its cursor, the url of the next page
\* or 0 for none.
Page(status, names, next) == [status |-> status, names |-> names, next |-> next]
PagesUpTo(n) ==
    {Page("ok", names, next) : names \in PageNames, next \in 0..n}
    \cup {Page(st, <<>>, 0) : st \in {"neterr", "readerr", "badjson"}}

NoListing == [tags |-> <<>>, err |-> FALSE, returned |-> FALSE]

TagsIdle ==
    /\ gRegistry = "" /\ gPages = <<>> /\ gPhase = "idle" /\ gUrl = 0 /\ gTags = <<>>
    /\ gFetched = <<>> /\ gList = NoListing /\ gRet = NoListing

TagsInit ==
    /\ gRegistry \in RegistryHosts
    /\ \E n \in 1..MaxPages : gPages \in [1..n -> PagesUpTo(n)]
    /\ gPhase = "idle" /\ gUrl = 0 /\ gTags = <<>>
    /\ gFetched = <<>> /\ gList = NoListing /\ gRet = NoListing

\* baseURLGenerator as it would be if an unknown registry were asked like
\* the generic ones
baseURLGeneratorDefaulting(registry, repo) ==
    IF registry = "docker.io"
    THEN <<"https://hub.docker.com/v2/repositories/", repo, "/tags?page_size=100">>
    ELSE <<"https://", registry, "/v2/", repo, "/tags/list">>

\* baseURLGenerator: the endpoint of the registry, "" for any other name
baseURLGenerator(registry, repo) ==
    IF registry = "docker.io"
    THEN <<"https://hub.docker.com/v2/repositories/", repo, "/tags?page_size=100">>
    ELSE IF registry \in {"ghcr.io", "quay.io", "registry.k8s.io"}
    THEN <<"https://", registry, "/v2/", repo, "/tags/list">>
    ELSE ""

\* getGenericTags: one request, the tags of its answer
getGenericTags(resp) ==
    IF resp.status # "ok" THEN [tags |-> <<>>, err |-> TRUE]
    ELSE [tags |-> TagsOf(resp.names), err |-> FALSE]

\* GetImageUpdates up to the loop of getDockerHubTags: the unsupported
\* registry returns at once, a generic registry is asked once and the call
\* returns, docker.io enters the loop with the base url
CallGetImageUpdates ==
    /\ gPhase = "idle"
    /\ IF baseURLGenerator(gRegistry, "library/redis") = ""
       THEN /\ gRet' = [tags |-> <<>>, err |-> TRUE, returned |-> TRUE]
            /\ gPhase' = "done"
            /\ UNCHANGED <<gUrl, gFetched>>
       ELSE IF gRegistry = "docker.io"
       THEN /\ gPhase' = "paging" /\ gUrl' = 1
            /\ UNCHANGED <<gRet, gFetched>>
       ELSE /\ \E r \in {getGenericTags(gPages[1])} :
                  \E latest \in filterLatestVersion(r.tags) :
                      gRet' = [tags |-> latest, err |-> r.err, returned |-> TRUE]
            /\ gFetched' = <<1>>
            /\ gPhase' = "done"
            /\ UNCHANGED gUrl
    /\ UNCHANGED <<gRegistry, gPages, gTags, gList>>

\* the cursor as it would be if the listing stopped after its first page
NextUrlNone(resp) == 0

\* url = dockerResp.Next
NextUrl(resp) == resp.next

\* one turn of the loop of getDockerHubTags: the request for url, then the
\* return of the error, or the tags of the page appended and url set to the
\* cursor; when the cursor is "" the loop ends, getDockerHubTags returns
\* tags and GetImageUpdates returns their filterLatestVersion
FetchPage ==
    /\ gPhase = "paging" /\ Len(gFetched) < MaxFetches
    /\ gFetched' = Append(gFetched, gUrl)
    /\ \E resp \in {gPages[gUrl]} :
          IF resp.status # "ok"
          THEN /\ gList' = [tags |-> <<>>, err |-> TRUE, returned |-> TRUE]
               /\ \E latest \in filterLatestVersion(<<>>) :
                     gRet' = [tags |-> latest, err |-> TRUE, returned |-> TRUE]
               /\ gPhase' = "done"
               /\ UNCHANGED <<gTags, gUrl>>
          ELSE /\ gTags' = gTags \o TagsOf(resp.names)
               /\ gUrl' = NextUrl(resp)
               /\ IF NextUrl(resp) = 0
                  THEN /\ gList' = [tags |-> gTags', err |-> FALSE, returned |-> TRUE]
                       /\ \E latest \in filterLatestVersion(gTags') :
                             gRet' = [tags |-> latest, err |-> FALSE, returned |-> TRUE]
                       /\ gPhase' = "done"
                  ELSE UNCHANGED <<gList, gRet, gPhase>>
    /\ UNCHANGED <<gRegistry, gPages>>

\* C24: GetImageUpdates with a registry hostname outside docker.io, ghcr.io,
\* quay.io and registry.k8s.io returns an error and no tags without issuing
\* a request; and whenever it returns an error it returns no tags.
C24_UnsupportedRegistryIsAnError ==
    gRet.returned =>
        /\ gRegistry \notin {"docker.io", "ghcr.io", "quay.io", "registry.k8s.io"} =>
              gRet.err /\ gRet.tags = <<>> /\ gFetched = <<>>
        /\ gRet.err => gRet.tags = <<>>

\* GetImageUpdates has returned for the registry gcr.io
C24_Witness ==
    /\ gRet.returned /\ gRegistry = "gcr.io"
    /\ gRet.err /\ gRet.tags = <<>> /\ gFetched = <<>>

\* whether the pages, followed from url u by their cursors, come within n
\* requests to a page without a cursor or to a failing request
RECURSIVE ChainEnds(_, _, _)
ChainEnds(pages, u, n) ==
    IF n = 0 THEN FALSE
    ELSE IF pages[u].status # "ok" \/ pages[u].next = 0 THEN TRUE
    ELSE ChainEnds(pages, pages[u].next, n - 1)

\* the tag names of the pages requested, in the order of the requests
RECURSIVE NamesOfPages(_, _)
NamesOfPages(pages, urls) ==
    IF urls = <<>> THEN <<>>
    ELSE pages[urls[1]].names \o NamesOfPages(pages, Tail(urls))

\* the listing of getDockerHubTags so far: the requests follow the cursors
\* from the base url; it has returned only after a failing request (an
\* error and no tags) or after a page without a cursor (the tags of all
\* requested pages, in order)
ListingFollowsCursors ==
    gRegistry = "docker.io" =>
        /\ \A i \in DOMAIN gFetched :
              gFetched[i] = IF i = 1 THEN 1 ELSE gPages[gFetched[i - 1]].next
        /\ \A i \in DOMAIN gFetched :
              i < Len(gFetched) => gPages[gFetched[i]].status = "ok"
        /\ gList.returned =>
              /\ gFetched # <<>>
              /\ IF gList.err
                 THEN /\ gList.tags = <<>>
                      /\ gPages[gFetched[Len(gFetched)]].status # "ok"
                 ELSE /\ gPages[gFetched[Len(gFetched)]].status = "ok"
                      /\ gPages[gFetched[Len(gFetched)]].next = 0
                      /\ gList.tags = TagsOf(NamesOfPages(gPages, gFetched))
        /\ ~ChainEnds(gPages, 1, Len(gPages)) => ~gList.returned

VARIABLES
    conf,          \* the configuration the service was constructed with
    disk,          \* the names of the ns8- repositories of the base directory, in walk order
    files,         \* for each repository, the contents of its build-images.sh files
    git,           \* for each repository, the state of its clone
    start,         \* files and git as they were when the service was constructed
    clock,         \* the time, in seconds
    repositories,  \* UpdaterService.repositories
    pc,            \* where the service is in the call it is running
    mode,          \* the entry point called: "ScanAll", "UpdateAll" or "UpdateRepository"
    loop,          \* ScanAll and UpdateAll: scanResults, results and the loop index
    ur,            \* UpdateRepository: its arguments and local variables
    ret,           \* what the entry point returned
    log            \* the operations made on the repositories, in order

wfVars == <<conf, disk, files, git, start, clock, repositories, pc, mode, loop, ur, ret, log>>


MaxClock == 1

RepoNames == {"ns8-a", "ns8-b"}

\* filepath.Match for the patterns of the configurations below: "ns8-*"
\* matches every name that starts with ns8-, a pattern without
\* metacharacters matches itself, "[" is malformed (ErrBadPattern)
BadPattern(pattern) == pattern = "["
Match(pattern, name) ==
    IF BadPattern(pattern) THEN FALSE
    ELSE IF pattern = "ns8-*" THEN name \in RepoNames
    ELSE pattern = name

\* MatchesRepoPattern as it would be if it left out the excluded names
MatchesRepoPatternNotExcluded(c, repoName) ==
    repoName \notin c.ExcludeRepos /\ \E p \in c.RepoPatterns : Match(p, repoName)

MatchesRepoPattern(c, repoName) == \E p \in c.RepoPatterns : Match(p, repoName)
IsExcluded(c, repoName) == repoName \in c.ExcludeRepos
ShouldUpdateRepo(c, repoName) ==
    IF ~MatchesRepoPattern(c, repoName) THEN FALSE
    ELSE IF IsExcluded(c, repoName) THEN FALSE
    ELSE TRUE

\* emailRegex.MatchString, on the addresses of the configurations below
isValidEmail(email) == email \in {"ns8-updater@example.com"}

\* Config.Validate: TRUE when it returns nil
Validate(c) ==
    /\ c.RepoPatterns # {}
    /\ c.ScanPatterns # {}
    /\ \A p \in c.RepoPatterns : ~BadPattern(p)
    /\ \A p \in c.ScanPatterns : ~BadPattern(p)
    /\ c.DefaultBranch # ""
    /\ c.CommitTemplate # ""
    /\ (c.AuthorEmail # "" => isValidEmail(c.AuthorEmail))
    /\ c.BatchSize > 0

\* DefaultConfig, and the configurations the commands are run with
DefaultConfig ==
    [RepoPatterns |-> {"ns8-*"}, ScanPatterns |-> {"build-images.sh"},
     ExcludeRepos |-> {}, DefaultBranch |-> "updater",
     CommitTemplate |-> "Update Docker dependencies\n\n{{.Updates}}",
     AuthorEmail |-> "ns8-updater@example.com", BatchSize |-> 10]
WfConfigs ==
    { DefaultConfig,
      [DefaultConfig EXCEPT !.ExcludeRepos = {"ns8-b"}],
      [DefaultConfig EXCEPT !.RepoPatterns = {}],
      [DefaultConfig EXCEPT !.AuthorEmail = "ns8-updater"] }

\* UpdateResult of the service package; messages, branch names and errors
\* are sequences, the empty sequence being the empty string or the nil error
UpdateResult(repo, deps, success, message, branch, hash) ==
    [Repository |-> repo, Dependencies |-> deps, Success |-> success,
     Message |-> message, Branch |-> branch, CommitHash |-> hash]

\* the build-images.sh files a repository is cloned with
OneScript ==
    << RenderLines(<< Line(FALSE, <<VarDecl(<<"postgres">>, <<"1">>)>>),
                      Line(FALSE, <<ImgDecl(<<"postgres">>, <<"1">>),
                                    ImgDecl(<<"redis">>, <<"7">>)>>) >>) >>
TwoScripts ==
    << RenderLines(<< Line(FALSE, <<ImgDecl(<<"redis">>, <<"7">>)>>) >>),
       RenderLines(<< Line(FALSE, <<ImgDecl(<<"postgres">>, <<"1">>)>>) >>) >>

\* the git state of a clone: HEAD (a branch name, or <<>> when HEAD is
\* detached), the local branches, the staged files, the commits made and
\* the branches pushed
Main == <<"main">>
GitInit(head) ==
    [head |-> head, branches |-> {Main}, staged |-> {}, commits |-> <<>>, pushed |-> {}]

\* a clone in which branchName exists, with one commit on it
GitWithBranch(head, branchName) ==
    [GitInit(head) EXCEPT
        !.branches = @ \cup {branchName},
        !.commits = <<[hash |-> <<"sha", 1>>, branch |-> branchName,
                       message |-> <<"Update Docker dependencies">>, files |-> {}]>>]

\* the base directories the commands are run in: the repositories have
\* distinct directory names
World(names, trees, heads) ==
    [disk |-> names, files |-> trees, heads |-> heads, earlier |-> {}]
\* the same, the clones of earlier holding the update branch of an earlier
\* run of the same second, with its commit
WorldWithBranch(names, trees, heads, earlier) ==
    [disk |-> names, files |-> trees, heads |-> heads, earlier |-> earlier]
Worlds ==
    { World(<<>>, <<>>, <<>>),
      World(<<"ns8-a">>, <<OneScript>>, <<Main>>),
      WorldWithBranch(<<"ns8-a">>, <<TwoScripts>>, <<Main>>, {1}),
      World(<<"ns8-a", "ns8-b">>, <<OneScript, TwoScripts>>, <<Main, Main>>),
      World(<<"ns8-a", "ns8-b">>, <<TwoScripts, OneScript>>, <<<<>>, Main>>) }

\* the answers of the registry to the lookups of one scan: every lookup
\* fails, every lookup finds tag 2, or they alternate
WfOracles(n) ==
    { [i \in 1..n |-> Response("neterr", <<>>)],
      [i \in 1..n |-> Response("ok", << <<"2">> >>)],
      [i \in 1..n |-> IF i % 2 = 1 THEN Response("ok", << <<"2">> >>)
                      ELSE Response("neterr", <<>>)] }

\* Repository.GetCurrentBranch: an error when HEAD is not on a branch
GetCurrentBranch(g) == [err |-> g.head = <<>>, name |-> g.head]

\* CreateUpdateBranch as it would be if it created the branch anew at HEAD
\* when it exists
CreateUpdateBranchRecreating(g, branchName) ==
    [g EXCEPT !.head = branchName, !.branches = g.branches \cup {branchName},
              !.commits = SelectSeq(g.commits, LAMBDA c : c.branch # branchName)]

\* Repository.CreateUpdateBranch when the checkout succeeds: the branch is
\* created unless it exists, and HEAD moves to it
CreateUpdateBranch(g, branchName) ==
    [g EXCEPT !.head = branchName, !.branches = g.branches \cup {branchName}]

\* Repository.CreateUpdateBranch when the checkout fails: nothing happened,
\* or the branch was created and HEAD stayed, or HEAD moved and the reset of
\* the working tree failed
CreateUpdateBranchFailed(g, branchName) ==
    { g,
      [g EXCEPT !.branches = g.branches \cup {branchName}],
      CreateUpdateBranch(g, branchName) }

\* the hash of the n-th commit made in a clone
CommitId(n) == <<"sha", n>>

\* Repository.CommitChanges when every Add and the Commit succeed
CommitChanges(g, message, fs) ==
    [g EXCEPT !.staged = {},
              !.commits = Append(g.commits,
                                 [hash |-> CommitId(Len(g.commits) + 1),
                                  branch |-> g.head, message |-> message,
                                  files |-> g.staged \cup {fs[i] : i \in DOMAIN fs}])]

\* a failed CommitChanges that checks the branch main out again
CommitChangesFailedRestoring(g, fs, n) ==
    [g EXCEPT !.head = Main, !.staged = g.staged \cup {fs[i] : i \in 1..(n - 1)}]

\* Repository.CommitChanges when the Add of the n-th file fails (n up to
\* Len(fs)), or the Commit fails (n = Len(fs) + 1): the files added before
\* stay staged
CommitChangesFailed(g, fs, n) ==
    [g EXCEPT !.staged = g.staged \cup {fs[i] : i \in 1..(n - 1)}]

\* Repository.PushBranch when the push succeeds
PushBranch(g, branchName) == [g EXCEPT !.pushed = g.pushed \cup {branchName}]

\* "%s-%s" of the update branch and the time, second precision
BranchName(updateBranch, now) == <<updateBranch, now>>

\* removeDuplicates as it would be if it kept every item
keepDuplicates(slice) == slice

\* removeDuplicates
RECURSIVE removeDuplicates(_)
removeDuplicates(slice) ==
    IF slice = <<>> THEN <<>>
    ELSE LET init == removeDuplicates(Take(slice, Len(slice) - 1))
             item == slice[Len(slice)]
         IN  IF \E i \in DOMAIN init : init[i] = item THEN init ELSE Append(init, item)

\* DockerUpdater.Scan on a repository whose walk has no error and whose
\* scripts all open
RECURSIVE ScanWalk(_, _, _, _, _)
ScanWalk(contents, repo, i, oracle, deps) ==
    IF i > Len(contents) THEN deps
    ELSE LET r == WalkFn(FALSE, TRUE, contents[i], <<repo, i>>, oracle, deps)
         IN  ScanWalk(contents, repo, i + 1, r.oracle, r.deps)

RECURSIVE TreeLookups(_)
TreeLookups(contents) ==
    IF contents = <<>> THEN 0 ELSE NumLookups(contents[1]) + TreeLookups(Tail(contents))

\* the filter without its comparison of the versions when nothing is selected
DepsToUpdateUnfiltered(dependencies, selectedDeps) ==
    IF Len(selectedDeps) = 0
    THEN dependencies
    ELSE SelectSeq(dependencies,
                   LAMBDA dep : /\ \E i \in DOMAIN selectedDeps : dep.Name = selectedDeps[i]
                                /\ dep.CurrentVersion # dep.LatestVersion)

\* the filter without its comparison with the selected names
DepsToUpdateIgnoringSelection(dependencies, selectedDeps) ==
    SelectSeq(dependencies, LAMBDA dep : dep.CurrentVersion # dep.LatestVersion)

\* "Filter dependencies based on selection" of UpdateRepository
DepsToUpdate(dependencies, selectedDeps) ==
    IF Len(selectedDeps) = 0
    THEN SelectSeq(dependencies, LAMBDA dep : dep.CurrentVersion # dep.LatestVersion)
    ELSE SelectSeq(dependencies,
                   LAMBDA dep : /\ \E i \in DOMAIN selectedDeps : dep.Name = selectedDeps[i]
                                /\ dep.CurrentVersion # dep.LatestVersion)

\* hasUpdates of UpdateAll
HasUpdates(dependencies) ==
    \E i \in DOMAIN dependencies :
        dependencies[i].CurrentVersion # dependencies[i].LatestVersion


\* the messages of the outcomes
MsgExcluded == <<"Repository excluded by configuration">>
MsgScanFailed == <<"Failed to scan dependencies">>
MsgFound(n) == <<"Found dependencies", n>>
MsgNoUpdates == <<"No updates available">>
MsgNoBranch == <<"Failed to get current branch">>
MsgNothing == <<"No dependencies need updating">>
MsgBranchFailed == <<"Failed to create update branch">>
MsgApplyFailedNamingVersion(dep) == <<"Failed to apply update for", dep.LatestVersion>>
MsgApplyFailed(dep) == <<"Failed to apply update for", dep.Name>>
MsgCommitFailed == <<"Failed to commit changes">>
MsgPushFailed == <<"Failed to push branch">>
MsgUpdated(n, branchName) == <<"Updated dependencies and pushed to branch", n, branchName>>
MsgFailedToUpdate(err) == <<"Failed to update", err>>
ErrNotFound(repoName) == <<"repository not found", repoName>>
ErrInvalidConfig == <<"invalid configuration">>
ErrList == <<"failed to list NS8 repositories">>

\* "%s: %s -> %s" of one applied Dependency
UpdateMessage(dep) == <<dep.Name, dep.CurrentVersion, dep.LatestVersion>>

NoResult == UpdateResult("", <<>>, FALSE, <<>>, <<>>, <<>>)
NoCall ==
    [id |-> 0, name |-> "", sel |-> <<>>, repo |-> 0, deps |-> <<>>, depsToUpdate |-> <<>>,
     branchName |-> <<>>, k |-> 0, updatedFiles |-> <<>>, updateMessages |-> <<>>,
     result |-> NoResult, err |-> <<>>]
NoLoop == [scanResults |-> <<>>, results |-> <<>>, i |-> 0]
NoReturn == [err |-> <<>>, results |-> <<>>]

\* one operation on repository repo, made by the w-th call of
\* UpdateRepository (0: made by ScanAll); arg: for ApplyUpdate, the
\* Dependency it was called with
Event(w, repo, op, ok) == [w |-> w, repo |-> repo, op |-> op, ok |-> ok, arg |-> <<>>]

\* the Dependency as an argument: Name, CurrentVersion, LatestVersion, File
DepArg(dep) == <<dep.Name, dep.CurrentVersion, dep.LatestVersion, dep.File>>

WfIdle ==
    /\ conf = DefaultConfig /\ disk = <<>> /\ files = <<>> /\ git = <<>>
    /\ start = [files |-> <<>>, git |-> <<>>] /\ clock = 0
    /\ repositories = <<>> /\ pc = "done" /\ mode = "" /\ loop = NoLoop
    /\ ur = NoCall /\ ret = NoReturn /\ log = <<>>

WfInit ==
    /\ conf \in WfConfigs
    /\ \E w \in Worlds :
          /\ disk = w.disk
          /\ files = w.files
          /\ git = [i \in DOMAIN w.disk |->
                      IF i \in w.earlier
                      THEN GitWithBranch(w.heads[i], BranchName(conf.DefaultBranch, MaxClock))
                      ELSE GitInit(w.heads[i])]
    /\ start = [files |-> files, git |-> git]
    /\ clock = 0
    /\ repositories = <<>>
    /\ pc = "idle" /\ mode = "" /\ loop = NoLoop /\ ur = NoCall /\ ret = NoReturn
    /\ log = <<>>

\* Manager.ListNS8Repos when the walk has no error: Name and the place of
\* the clone
ListNS8Repos == [i \in DOMAIN disk |-> [Name |-> disk[i], repo |-> i]]

\* UpdaterService.RefreshRepositories, as the update command calls it
\* before UpdateRepository
RefreshRepositories ==
    /\ pc = "idle" /\ repositories # ListNS8Repos
    /\ repositories' = ListNS8Repos
    /\ UNCHANGED <<conf, disk, files, git, start, clock, pc, mode, loop, ur, ret, log>>

\* the head of ScanAll, up to its loop: called by the scan command
\* (m = "ScanAll") or by UpdateAll (m = "UpdateAll")
ScanAllBegin(m) ==
    /\ pc = "idle"
    /\ mode' = m
    /\ IF ~Validate(conf)
       THEN /\ ret' = [err |-> ErrInvalidConfig, results |-> <<>>]
            /\ pc' = "done"
            /\ UNCHANGED <<repositories, loop>>
       ELSE \/ /\ ret' = [err |-> ErrList, results |-> <<>>]
               /\ pc' = "done"
               /\ UNCHANGED <<repositories, loop>>
            \/ /\ repositories' = ListNS8Repos
               /\ loop' = [scanResults |-> <<>>, results |-> <<>>, i |-> 1]
               /\ pc' = "SA_loop"
               /\ UNCHANGED ret
    /\ UNCHANGED <<conf, disk, files, git, start, clock, ur, log>>

CallScanAll == ScanAllBegin("ScanAll")
CallUpdateAll == ScanAllBegin("UpdateAll")

\* DockerUpdater.Scan of the clone repo: the walk fails, or every script is
\* scanned with the registry answering as oracle says
ScanOutcomes(repo) ==
    {[err |-> TRUE, deps |-> <<>>]} \cup
    {[err |-> FALSE, deps |-> ScanWalk(files[repo], repo, 1, oracle, <<>>)] :
        oracle \in WfOracles(TreeLookups(files[repo]))}

\* one iteration of the loop of ScanAll
SA_Repo ==
    /\ pc = "SA_loop" /\ loop.i <= Len(repositories)
    /\ LET repo == repositories[loop.i]
       IN  IF ~ShouldUpdateRepo(conf, repo.Name)
           THEN /\ loop' = [loop EXCEPT
                               !.scanResults = Append(@, UpdateResult(repo.Name, <<>>, FALSE,
                                                                      MsgExcluded, <<>>, <<>>)),
                               !.i = @ + 1]
                /\ UNCHANGED log
           ELSE \E s \in ScanOutcomes(repo.repo) :
                   /\ loop' = [loop EXCEPT
                                  !.scanResults =
                                      Append(@, IF s.err
                                                THEN UpdateResult(repo.Name, <<>>, FALSE,
                                                                  MsgScanFailed, <<>>, <<>>)
                                                ELSE UpdateResult(repo.Name, s.deps, TRUE,
                                                                  MsgFound(Len(s.deps)),
                                                                  <<>>, <<>>)),
                                  !.i = @ + 1]
                   /\ log' = Append(log, Event(0, repo.repo, "scan", ~s.err))
    /\ UNCHANGED <<conf, disk, files, git, start, clock, repositories, pc, mode, ur, ret>>

\* the loop of ScanAll is over: ScanAll returns, to the command or to UpdateAll
SA_Return ==
    /\ pc = "SA_loop" /\ loop.i > Len(repositories)
    /\ IF mode = "ScanAll"
       THEN /\ ret' = [err |-> <<>>, results |-> loop.scanResults]
            /\ pc' = "done"
            /\ UNCHANGED loop
       ELSE /\ loop' = [loop EXCEPT !.i = 1]
            /\ pc' = "UA_loop"
            /\ UNCHANGED ret
    /\ UNCHANGED <<conf, disk, files, git, start, clock, repositories, mode, ur, log>>


\* a step whose error is not looked at
SequelIgnoringError(err, next) == next

\* "if err != nil { ...; return result, nil }" after a step of
\* UpdateRepository: where the call goes on
Sequel(err, next) == IF err THEN "UR_return" ELSE next

\* "break" in place of "continue" after a failed outcome
NextRepoUnlessFailed(i, result) ==
    IF result.Success THEN i + 1 ELSE Len(loop.scanResults) + 1

\* a loop of UpdateAll that does not move on to the next scan result
NextRepoStaying(i, result) == i

\* "continue" of the loop of UpdateAll, after result was appended
NextRepo(i, result) == i + 1

\* the update command with a repository argument calls UpdateRepository
CallUpdateRepository ==
    /\ pc = "idle"
    /\ \E name \in RepoNames, sel \in {<<>>, << <<"redis">> >>} :
          ur' = [NoCall EXCEPT !.id = 1, !.name = name, !.sel = sel,
                               !.result = UpdateResult(name, <<>>, FALSE, <<>>, <<>>, <<>>)]
    /\ mode' = "UpdateRepository"
    /\ pc' = "UR_start"
    /\ UNCHANGED <<conf, disk, files, git, start, clock, repositories, loop, ret, log>>

\* one iteration of the loop of UpdateAll, up to its call of UpdateRepository
UA_Repo ==
    /\ pc = "UA_loop" /\ loop.i <= Len(loop.scanResults)
    /\ LET scanResult == loop.scanResults[loop.i]
       IN  IF ~scanResult.Success
           THEN /\ loop' = [loop EXCEPT !.results = Append(@, scanResult),
                                        !.i = NextRepo(@, scanResult)]
                /\ UNCHANGED <<pc, ur>>
           ELSE IF ~HasUpdates(scanResult.Dependencies)
           THEN LET result == UpdateResult(scanResult.Repository, scanResult.Dependencies,
                                           TRUE, MsgNoUpdates, <<>>, <<>>)
                IN  /\ loop' = [loop EXCEPT !.results = Append(@, result),
                                            !.i = NextRepo(@, result)]
                    /\ UNCHANGED <<pc, ur>>
           ELSE /\ ur' = [NoCall EXCEPT
                             !.id = ur.id + 1, !.name = scanResult.Repository, !.sel = <<>>,
                             !.result = UpdateResult(scanResult.Repository, <<>>, FALSE,
                                                     <<>>, <<>>, <<>>)]
                /\ pc' = "UR_start"
                /\ UNCHANGED loop
    /\ UNCHANGED <<conf, disk, files, git, start, clock, repositories, mode, ret, log>>

\* the loop of UpdateAll is over
UA_Return ==
    /\ pc = "UA_loop" /\ loop.i > Len(loop.scanResults)
    /\ ret' = [err |-> <<>>, results |-> loop.results]
    /\ pc' = "done"
    /\ UNCHANGED <<conf, disk, files, git, start, clock, repositories, mode, loop, ur, log>>

\* UpdateRepository: "Find the repository" and "Get current branch"
UR_Start ==
    /\ pc = "UR_start"
    /\ LET found == {i \in DOMAIN repositories : repositories[i].Name = ur.name}
       IN  IF found = {}
           THEN /\ ur' = [ur EXCEPT !.err = ErrNotFound(ur.name)]
                /\ pc' = "UR_return"
           ELSE LET targetRepo == repositories[CHOOSE i \in found : \A j \in found : i <= j]
                    cb == GetCurrentBranch(git[targetRepo.repo])
                IN  /\ ur' = [ur EXCEPT !.repo = targetRepo.repo,
                                        !.result.Message = IF cb.err THEN MsgNoBranch ELSE @]
                    /\ pc' = Sequel(cb.err, "UR_scan")
    /\ UNCHANGED <<conf, disk, files, git, start, clock, repositories, mode, loop, ret, log>>

\* UpdateRepository: "Scan for dependencies", "Filter dependencies based on
\* selection" and the return when nothing is to update
UR_Scan ==
    /\ pc = "UR_scan"
    /\ \E s \in ScanOutcomes(ur.repo) :
          LET depsToUpdate == DepsToUpdate(s.deps, ur.sel)
              nothing == ~s.err /\ Len(depsToUpdate) = 0
          IN  /\ ur' = [ur EXCEPT
                           !.deps = s.deps,
                           !.depsToUpdate = depsToUpdate,
                           !.result.Message = IF s.err THEN MsgScanFailed
                                              ELSE IF nothing THEN MsgNothing ELSE @,
                           !.result.Success = IF nothing THEN TRUE ELSE @,
                           !.result.Dependencies = IF nothing THEN s.deps ELSE @]
              /\ pc' = Sequel(s.err, IF nothing THEN "UR_return" ELSE "UR_branch")
              /\ log' = Append(log, Event(ur.id, ur.repo, "scan", ~s.err))
    /\ UNCHANGED <<conf, disk, files, git, start, clock, repositories, mode, loop, ret>>

\* UpdateRepository: "Create update branch"
UR_Branch ==
    /\ pc = "UR_branch"
    /\ \E now \in clock..MaxClock :
          LET branchName == BranchName(conf.DefaultBranch, now)
              g == git[ur.repo]
          IN  /\ clock' = now
              /\ \E err \in BOOLEAN :
                    /\ \E g2 \in (IF err THEN CreateUpdateBranchFailed(g, branchName)
                                  ELSE {CreateUpdateBranch(g, branchName)}) :
                          git' = [git EXCEPT ![ur.repo] = g2]
                    /\ ur' = [ur EXCEPT !.branchName = branchName, !.k = 1,
                                        !.result.Message = IF err THEN MsgBranchFailed ELSE @]
                    /\ pc' = Sequel(err, "UR_apply")
                    /\ log' = Append(log, Event(ur.id, ur.repo, "branch", ~err))
    /\ UNCHANGED <<conf, disk, files, start, repositories, mode, loop, ret>>

\* UpdateRepository: one iteration of "Apply updates"
UR_Apply ==
    /\ pc = "UR_apply" /\ ur.k <= Len(ur.depsToUpdate)
    /\ LET dep == ur.depsToUpdate[ur.k]
           r == dep.File[1]
           f == dep.File[2]
       IN  \E readable \in BOOLEAN, writable \in BOOLEAN :
              LET a == ApplyUpdateFile([content |-> files[r][f], readable |-> readable,
                                        writable |-> writable], dep)
              IN  /\ files' = [files EXCEPT ![r][f] = a.file.content]
                  /\ ur' = IF a.err
                           THEN [ur EXCEPT !.result.Message = MsgApplyFailed(dep)]
                           ELSE [ur EXCEPT !.k = @ + 1,
                                           !.updatedFiles = Append(@, dep.File),
                                           !.updateMessages = Append(@, UpdateMessage(dep))]
                  /\ pc' = Sequel(a.err, IF ur.k = Len(ur.depsToUpdate) THEN "UR_commit"
                                         ELSE "UR_apply")
                  /\ log' = Append(log, [Event(ur.id, ur.repo, "apply", ~a.err)
                                              EXCEPT !.arg = DepArg(dep)])
    /\ UNCHANGED <<conf, disk, git, start, clock, repositories, mode, loop, ret>>

\* UpdateRepository: "Remove duplicates from updated files" and "Commit changes"
UR_Commit ==
    /\ pc = "UR_commit"
    /\ LET updatedFiles == removeDuplicates(ur.updatedFiles)
           commitMessage == <<"Update Docker dependencies">> \o ur.updateMessages
           g == git[ur.repo]
       IN  \E n \in 0..(Len(updatedFiles) + 1) :
              /\ git' = [git EXCEPT ![ur.repo] =
                            IF n = 0 THEN CommitChanges(g, commitMessage, updatedFiles)
                            ELSE CommitChangesFailed(g, updatedFiles, n)]
              /\ ur' = [ur EXCEPT !.updatedFiles = updatedFiles,
                                  !.result.Message = IF n # 0 THEN MsgCommitFailed ELSE @]
              /\ pc' = Sequel(n # 0, "UR_push")
              /\ log' = Append(log, [Event(ur.id, ur.repo, "commit", n = 0)
                                          EXCEPT !.arg = updatedFiles])
    /\ UNCHANGED <<conf, disk, files, start, clock, repositories, mode, loop, ret>>

\* UpdateRepository: "Push branch", "Get commit hash" and the outcome of
\* the update
UR_Push ==
    /\ pc = "UR_push"
    /\ \E err \in BOOLEAN :
          LET g == IF err THEN git[ur.repo] ELSE PushBranch(git[ur.repo], ur.branchName)
              cb == GetCurrentBranch(g)
              head == IF cb.err THEN <<"unknown">> ELSE cb.name
          IN  /\ git' = [git EXCEPT ![ur.repo] = g]
              /\ ur' = IF err
                       THEN [ur EXCEPT !.result.Message = MsgPushFailed]
                       ELSE [ur EXCEPT
                                !.result = UpdateResult(ur.name, ur.depsToUpdate, TRUE,
                                                        MsgUpdated(Len(ur.depsToUpdate),
                                                                   ur.branchName),
                                                        ur.branchName, head)]
              /\ pc' = Sequel(err, "UR_return")
              /\ log' = Append(log, Event(ur.id, ur.repo, "push", ~err))
    /\ UNCHANGED <<conf, disk, files, start, clock, repositories, mode, loop, ret>>

\* UpdateRepository returns, to the command or to the loop of UpdateAll
UR_Return ==
    /\ pc = "UR_return"
    /\ IF mode = "UpdateRepository"
       THEN /\ ret' = [err |-> ur.err,
                       results |-> IF ur.err # <<>> THEN <<>> ELSE <<ur.result>>]
            /\ pc' = "done"
            /\ UNCHANGED loop
       ELSE LET result == IF ur.err # <<>>
                          THEN UpdateResult(ur.name, <<>>, FALSE, MsgFailedToUpdate(ur.err),
                                            <<>>, <<>>)
                          ELSE ur.result
            IN  /\ loop' = [loop EXCEPT !.results = Append(@, result),
                                        !.i = NextRepo(@, result)]
                /\ pc' = "UA_loop"
                /\ UNCHANGED ret
    /\ UNCHANGED <<conf, disk, files, git, start, clock, repositories, mode, ur, log>>

WfNext ==
    \/ RefreshRepositories
    \/ CallScanAll
    \/ CallUpdateAll
    \/ CallUpdateRepository
    \/ SA_Repo
    \/ SA_Return
    \/ UA_Repo
    \/ UA_Return
    \/ UR_Start
    \/ UR_Scan
    \/ UR_Branch
    \/ UR_Apply
    \/ UR_Commit
    \/ UR_Push
    \/ UR_Return


\* ------------------------------------------------ the workflow's properties
\* the events of the log made by the w-th call of UpdateRepository
EventsOf(w) == SelectSeq(log, LAMBDA e : e.w = w)

\* the w-th call made op, with success
Did(w, op) == \E p \in DOMAIN log : log[p].w = w /\ log[p].op = op /\ log[p].ok

\* the w-th call tried op
Tried(w, op) == \E p \in DOMAIN log : log[p].w = w /\ log[p].op = op

\* the call of UpdateRepository of ur has decided its outcome
Decided == ur.id > 0 /\ pc \notin {"UR_start", "UR_scan", "UR_branch", "UR_apply",
                                   "UR_commit", "UR_push"}

\* the outcome of the call of UpdateRepository of ur, once decided: what it
\* is about to return, or what was returned for it
Outcome ==
    IF pc = "UR_return" THEN ur.result
    ELSE IF mode = "UpdateRepository" THEN ret.results[1]
    ELSE loop.results[CHOOSE j \in DOMAIN loop.results :
                          loop.results[j].Repository = ur.name]

\* the clone repo is as it was when the command started
Untouched(repo) == files[repo] = start.files[repo] /\ git[repo] = start.git[repo]

\* C1: when the workflow of a repository finds no scanned dependency whose
\* CurrentVersion differs from its LatestVersion, its outcome has
\* Success=true and a nothing-to-update message, no branch is created or
\* checked out, no file is edited, and no commit or push is attempted: for
\* UpdateRepository, and for the repositories UpdateAll does not hand to it.
C1_NothingToUpdate ==
    /\ (ur.id > 0 /\ Did(ur.id, "scan") /\ ~HasUpdates(ur.deps))
          => /\ Decided
             /\ ur.err = <<>>
             /\ Outcome.Success /\ Outcome.Message = MsgNothing
             /\ Outcome.Branch = <<>>
             /\ ~Tried(ur.id, "branch") /\ ~Tried(ur.id, "apply")
             /\ ~Tried(ur.id, "commit") /\ ~Tried(ur.id, "push")
             /\ Untouched(ur.repo)
    /\ mode = "UpdateAll" =>
          \A j \in DOMAIN loop.results :
              (loop.scanResults[j].Success /\ ~HasUpdates(loop.scanResults[j].Dependencies))
                 => /\ loop.results[j].Success
                    /\ loop.results[j].Message = MsgNoUpdates
                    /\ loop.results[j].Branch = <<>>
                    /\ \A p \in DOMAIN log : log[p].repo = j => log[p].w = 0
                    /\ Untouched(j)

\* C1's case on both paths: UpdateAll has returned, one repository with
\* dependencies had none to update after the scan of ScanAll, another had
\* none after the scan of UpdateRepository
C1_Witness ==
    /\ pc = "done" /\ mode = "UpdateAll"
    /\ \E j \in DOMAIN ret.results :
          /\ ret.results[j].Message = MsgNoUpdates
          /\ ret.results[j].Dependencies # <<>>
    /\ \E j \in DOMAIN ret.results :
          /\ ret.results[j].Message = MsgNothing
          /\ ret.results[j].Dependencies # <<>>

\* the declaration a Dependency stands for once it is updated, as written
\* in a script
UpdatedDecl(dep) ==
    IF IsVarDep(dep)
    THEN VarDecl(Take(dep.Name, Len(dep.Name) - 1), dep.LatestVersion)
    ELSE ImgDecl(dep.Name, dep.LatestVersion)

\* the number of ApplyUpdate calls of the w-th call that succeeded
Applied(w) == Len(SelectSeq(log, LAMBDA e : e.w = w /\ e.op = "apply" /\ e.ok))

\* an ApplyUpdate call of the call of ur failed
ApplyFailed == \E p \in DOMAIN log : log[p].w = ur.id /\ log[p].op = "apply" /\ ~log[p].ok

Rank(op) ==
    CASE op = "scan" -> 1 [] op = "branch" -> 2 [] op = "apply" -> 3
      [] op = "commit" -> 4 [] op = "push" -> 5

\* C3: in the workflow of one repository each step is attempted only after
\* every earlier step succeeded, in the order scan, select, branch
\* checkout, apply, commit, push: no file is edited before the update
\* branch was created or checked out, no commit is attempted before every
\* selected apply succeeded, no push before the commit succeeded, and
\* Success=true with a branch name is reported only after the push succeeded.
C3_StepOrder ==
    (ur.id > 0 /\ ur.repo > 0) =>
        LET evs == EventsOf(ur.id)
        IN  /\ \A p \in DOMAIN evs, q \in DOMAIN evs :
                  p < q => /\ evs[p].ok
                           /\ Rank(evs[p].op) <= Rank(evs[q].op)
                           /\ (Rank(evs[p].op) = Rank(evs[q].op) => evs[p].op = "apply")
            /\ evs # <<>> => evs[1].op = "scan"
            /\ Tried(ur.id, "branch") => Did(ur.id, "scan") /\ ur.depsToUpdate # <<>>
            /\ Tried(ur.id, "apply") => Did(ur.id, "branch")
            /\ files[ur.repo] # start.files[ur.repo]
                  => Did(ur.id, "branch") /\ git[ur.repo].head = ur.branchName
            /\ Tried(ur.id, "commit") => Applied(ur.id) = Len(ur.depsToUpdate)
            /\ git[ur.repo].commits # start.git[ur.repo].commits
                  => Applied(ur.id) = Len(ur.depsToUpdate)
            /\ Tried(ur.id, "push") => Did(ur.id, "commit")
            /\ git[ur.repo].pushed # start.git[ur.repo].pushed => Did(ur.id, "commit")
            /\ (Decided /\ ur.err = <<>> /\ Outcome.Success /\ Outcome.Branch # <<>>)
                  => Did(ur.id, "push") /\ Outcome.Branch \in git[ur.repo].pushed

\* C3's case: a workflow with two or more selected dependencies went
\* through every step and reported its branch
C3_Witness ==
    /\ pc = "done" /\ ur.id > 0 /\ Did(ur.id, "push")
    /\ Len(ur.depsToUpdate) >= 2
    /\ Outcome.Success /\ Outcome.Branch = ur.branchName

\* C4: UpdateAll produces exactly one outcome per discovered repository, in
\* discovery order, and a failed outcome for one repository never prevents
\* the remaining repositories from being processed.
C4_OneOutcomePerRepository ==
    mode = "UpdateAll" =>
        /\ pc = "UA_loop" => Len(loop.results) = loop.i - 1
        /\ \A j \in DOMAIN loop.results : loop.results[j].Repository = disk[j]
        /\ (pc = "done" /\ ret.err = <<>>) =>
              /\ Len(ret.results) = Len(disk)
              /\ \A j \in DOMAIN disk :
                    /\ ret.results[j].Repository = disk[j]
                    \* every repository had its turn, whatever happened before
                    /\ ~IsExcluded(conf, disk[j])
                          => \E p \in DOMAIN log : log[p].repo = j /\ log[p].op = "scan"
                    /\ ret.results[j].Message \in
                          {MsgExcluded, MsgScanFailed, MsgNoUpdates, MsgNoBranch, MsgNothing,
                           MsgBranchFailed, MsgCommitFailed, MsgPushFailed}
                          \cup {<<"Failed to apply update for", n>> :
                                   n \in {<<"postgres", VERSION>>, <<"postgres">>, <<"redis">>}}
                          \cup {MsgUpdated(n, b) : n \in 1..3, b \in git[j].pushed}

\* C4's case: UpdateAll returned, the first repository failed and the
\* second one was updated and pushed
C4_Witness ==
    /\ pc = "done" /\ mode = "UpdateAll" /\ Len(ret.results) = 2
    /\ ~ret.results[1].Success
    /\ ret.results[2].Success /\ ret.results[2].Branch # <<>>


\* the members of a set of numbers, in increasing order
Sorted(S) ==
    CHOOSE f \in [1..Cardinality(S) -> S] :
        \A a \in DOMAIN f, b \in DOMAIN f : a < b => f[a] < f[b]

\* the places, in the list the scan of the call of ur returned, of the
\* dependencies that are to be updated: CurrentVersion differs from
\* LatestVersion and, when names were selected, Name is one of them
EligibleIdx ==
    {j \in DOMAIN ur.deps :
        /\ ur.deps[j].CurrentVersion # ur.deps[j].LatestVersion
        /\ ur.sel # <<>> => \E i \in DOMAIN ur.sel : ur.sel[i] = ur.deps[j].Name}

\* the ApplyUpdate calls of the w-th call, in order
Applies(w) == SelectSeq(log, LAMBDA e : e.w = w /\ e.op = "apply")

\* C13: UpdateRepository passes to ApplyUpdate exactly the scanned
\* dependencies with CurrentVersion # LatestVersion, restricted to those
\* whose Name is selected when the selection is not empty, in the order of
\* the scan; ApplyUpdate is never called for a dependency with
\* CurrentVersion = LatestVersion.
C13_AppliesExactlyTheEligible ==
    (ur.id > 0 /\ Did(ur.id, "scan")) =>
        LET applies == Applies(ur.id)
            eligible == Sorted(EligibleIdx)
        IN  /\ Len(applies) <= Len(eligible)
            /\ \A p \in DOMAIN applies :
                  /\ applies[p].arg = DepArg(ur.deps[eligible[p]])
                  /\ applies[p].arg[2] # applies[p].arg[3]
            \* every one of them was passed, unless a step failed before
            /\ pc = "UR_apply" => EligibleIdx # {}
            /\ Tried(ur.id, "commit") => Len(applies) = Len(eligible)
            /\ (Decided /\ Len(applies) < Len(eligible)) =>
                  \/ ~Did(ur.id, "branch")
                  \/ applies # <<>> /\ ~applies[Len(applies)].ok

\* C13's case: with the name redis selected, of the two scanned
\* dependencies that had a newer version only redis was applied, and the
\* workflow went on to commit
C13_Witness ==
    /\ pc = "done" /\ ur.id > 0 /\ ur.sel = << <<"redis">> >>
    /\ Did(ur.id, "commit")
    /\ Cardinality({j \in DOMAIN ur.deps :
                        ur.deps[j].CurrentVersion # ur.deps[j].LatestVersion}) >= 2
    /\ Len(Applies(ur.id)) = 1 /\ Applies(ur.id)[1].arg[1] = <<"redis">>


\* the arguments of the ApplyUpdate calls of the w-th call that returned
\* without an error: the dependencies whose edit was written
Written(w) ==
    LET oks == SelectSeq(Applies(w), LAMBDA e : e.ok)
    IN  [p \in DOMAIN oks |-> oks[p].arg]

\* C14: in every outcome the workflow returns, the Dependencies list is the
\* list of the dependencies actually changed, those whose edit was written
\* to their file during this workflow; a Done outcome that created a branch
\* carries that branch name together with those dependencies.
C14_DependenciesAreTheChanged ==
    (Decided /\ ur.err = <<>>) =>
        /\ [p \in DOMAIN Outcome.Dependencies |-> DepArg(Outcome.Dependencies[p])]
              = Written(ur.id)
        /\ (Outcome.Success /\ Did(ur.id, "branch")) => Outcome.Branch = ur.branchName


\* C15: when the workflow has committed and pushed, the CommitHash of the
\* outcome identifies the commit this workflow created; when nothing was
\* committed the field is empty.
C15_CommitHashIdentifiesCommit ==
    (Decided /\ ur.err = <<>>) =>
        /\ Did(ur.id, "push") =>
              LET commits == git[ur.repo].commits
              IN  Outcome.CommitHash = commits[Len(commits)].hash
        /\ ~Did(ur.id, "commit") => Outcome.CommitHash = <<>>


\* every dependency the call of ur selected has its new version in its file
EditsOnDisk ==
    \A j \in DOMAIN ur.depsToUpdate :
        LET dep == ur.depsToUpdate[j]
        IN  Contains(files[dep.File[1]][dep.File[2]], RenderDecl(UpdatedDecl(dep)))

\* C16: the workflow never undoes what it did: after a commit failure the
\* edits remain on disk, uncommitted; after a push failure the branch and
\* the commit remain in the local repository; and in every outcome reached
\* after the branch checkout HEAD stays on the update branch, the branch
\* checked out before is never restored.
C16_NothingUndone ==
    (Decided /\ ur.err = <<>> /\ ur.repo > 0) =>
        LET g == git[ur.repo]
            g0 == start.git[ur.repo]
        IN  /\ Did(ur.id, "branch") =>
                  /\ g.head = ur.branchName /\ g.head # g0.head
                  /\ ur.branchName \in g.branches
            /\ g0.branches \subseteq g.branches
            /\ (Tried(ur.id, "commit") /\ ~Did(ur.id, "commit")) =>
                  /\ EditsOnDisk /\ files[ur.repo] # start.files[ur.repo]
                  /\ g.commits = g0.commits
                  /\ ~Outcome.Success /\ Outcome.Message = MsgCommitFailed
            /\ (Tried(ur.id, "push") /\ ~Did(ur.id, "push")) =>
                  /\ EditsOnDisk
                  /\ Len(g.commits) = Len(g0.commits) + 1
                  /\ g.commits[Len(g.commits)].branch = ur.branchName
                  /\ ur.branchName \notin g.pushed
                  /\ ~Outcome.Success /\ Outcome.Message = MsgPushFailed

\* C16's case: the push of a workflow failed, after its commit
C16_Witness ==
    /\ pc = "done" /\ ur.id > 0 /\ ur.err = <<>>
    /\ Tried(ur.id, "push") /\ ~Did(ur.id, "push")
    /\ git[ur.repo].head = ur.branchName
    /\ Len(git[ur.repo].commits) = 1


\* the places of UpdateRepository
InWorkflow == pc \in {"UR_start", "UR_scan", "UR_branch", "UR_apply", "UR_commit",
                      "UR_push", "UR_return"}

\* C17: the repositories are processed strictly one at a time: at any
\* moment at most one repository's workflow is between its scan and its
\* outcome, at most one dependency is being applied, and UpdateAll starts
\* the next repository only after the outcome of the previous one is final.
C17_OneAtATime ==
    \* the operations of one workflow are not interleaved with another's,
    \* and the workflows come one after the other
    /\ \A p \in DOMAIN log, q \in DOMAIN log :
          (p < q /\ log[p].w > 0) =>
              /\ log[p].w <= log[q].w
              /\ log[p].w < log[q].w => log[p].repo # log[q].repo
              /\ log[p].w = log[q].w => log[p].repo = log[q].repo
    \* only the workflow of ur is under way, and its applies are those of
    \* the dependencies before the one in turn
    /\ \A p \in DOMAIN log : log[p].w <= ur.id
    /\ pc = "UR_apply" =>
          /\ Len(Applies(ur.id)) = ur.k - 1
          /\ \A p \in DOMAIN Applies(ur.id) :
                Applies(ur.id)[p].arg = DepArg(ur.depsToUpdate[p])
    \* in UpdateAll the outcomes of all the repositories before the one in
    \* turn are final, and no other is
    /\ (mode = "UpdateAll" /\ (InWorkflow \/ pc = "UA_loop")) =>
          /\ Len(loop.results) = loop.i - 1
          /\ \A j \in DOMAIN loop.results :
                loop.results[j].Repository = loop.scanResults[j].Repository
          /\ InWorkflow => ur.name = loop.scanResults[loop.i].Repository
          /\ \A p \in DOMAIN log :
                (log[p].w > 0 /\ log[p].w < ur.id) => log[p].repo < loop.i
                                                       /\ (InWorkflow => log[p].repo # ur.repo)

\* C17's case: UpdateAll ran the workflows of two repositories, each with
\* an ApplyUpdate call, and returned
C17_Witness ==
    /\ pc = "done" /\ mode = "UpdateAll" /\ ur.id = 2
    /\ Applies(1) # <<>> /\ Applies(2) # <<>>
    /\ Len(ret.results) = 2


\* C18: a configuration with no repository pattern, no scan pattern, an
\* invalid pattern, a malformed author email or a non-positive batch size
\* is rejected before any scanning begins: under it no entry point
\* (ScanAll, UpdateAll, UpdateRepository as the update command invokes it)
\* lists, scans, branches or edits a repository.
C18_InvalidConfigurationDoesNothing ==
    ~Validate(conf) =>
        /\ repositories = <<>>
        /\ log = <<>>
        /\ files = start.files /\ git = start.git
        /\ pc = "done" => ret.err # <<>> /\ ret.results = <<>>


\* the Dependencies the workflow applied, in apply order
AppliedDeps(w) == SelectSeq(log, LAMBDA e : e.w = w /\ e.op = "apply" /\ e.ok)

\* C26: the commit of a workflow stages exactly the files of the
\* dependencies that were applied, each file once and no other file, and
\* its message holds one `Name: Current -> Latest` line per applied
\* dependency, in apply order.
C26_CommitStagesTheAppliedFiles ==
    \A j \in DOMAIN log :
        (log[j].op = "commit" /\ log[j].ok) =>
            LET applied == AppliedDeps(log[j].w)
                staged == log[j].arg
                c == git[log[j].repo].commits[Len(git[log[j].repo].commits)]
            IN  /\ \A a, b \in DOMAIN staged : a # b => staged[a] # staged[b]
                /\ {staged[a] : a \in DOMAIN staged} = {applied[i].arg[4] : i \in DOMAIN applied}
                /\ c.files = {applied[i].arg[4] : i \in DOMAIN applied}
                /\ c.message = <<"Update Docker dependencies">>
                                \o [i \in DOMAIN applied |->
                                       <<applied[i].arg[1], applied[i].arg[2], applied[i].arg[3]>>]

\* a workflow that applied three dependencies of one file has committed
C26_Witness ==
    \E j \in DOMAIN log :
        /\ log[j].op = "commit" /\ log[j].ok
        /\ Len(log[j].arg) = 1
        /\ Len(AppliedDeps(log[j].w)) = 3
        /\ Len(git[log[j].repo].commits) = 1

\* C27: CreateUpdateBranch with a name that exists checks that branch out
\* without recreating or resetting it (its commits stay), and with a new
\* name creates the branch and checks it out; on success HEAD is on the
\* named branch, and on failure the workflow fails before any file is
\* edited.
C27_BranchCheckedOutOrCreated ==
    (ur.id > 0 /\ ur.repo > 0 /\ Tried(ur.id, "branch")) =>
        LET g == git[ur.repo]
            g0 == start.git[ur.repo]
        IN  /\ Did(ur.id, "branch") =>
                  /\ g.head = ur.branchName
                  /\ g.branches = g0.branches \cup {ur.branchName}
                  /\ Len(g.commits) >= Len(g0.commits)
                  /\ SubSeq(g.commits, 1, Len(g0.commits)) = g0.commits
            /\ ~Did(ur.id, "branch") =>
                  /\ files[ur.repo] = start.files[ur.repo]
                  /\ ~Tried(ur.id, "apply") /\ ~Tried(ur.id, "commit")
                  /\ Decided => (~Outcome.Success /\ Outcome.Message = MsgBranchFailed)

\* the update branch existed, with a commit, and the workflow checked it
\* out and committed on it
C27_Witness ==
    /\ pc = "done" /\ ur.id > 0 /\ ur.repo > 0
    /\ Did(ur.id, "branch") /\ Did(ur.id, "commit")
    /\ ur.branchName \in start.git[ur.repo].branches
    /\ git[ur.repo].head = ur.branchName
    /\ Len(git[ur.repo].commits) = 2

\* C29: a repository for which ShouldUpdateRepo is false is never
\* branched, edited, committed or pushed, by UpdateAll or by a direct
\* UpdateRepository call for its name: its files and its clone stay as they
\* were.
C29_ExcludedRepositoryUntouched ==
    \A r \in DOMAIN disk :
        ~ShouldUpdateRepo(conf, disk[r]) =>
            /\ Untouched(r)
            /\ \A j \in DOMAIN log :
                  log[j].repo = r => log[j].op \notin {"branch", "apply", "commit", "push"}

\* C30: the workflow never rewrites a declaration to an older or
\* non-version value: for every Dependency passed to ApplyUpdate,
\* LatestVersion begins with a number and is greater than CurrentVersion in
\* major/minor/patch order (components that are not written count as 0).
C30_OnlyUpgradesApplied ==
    \A j \in DOMAIN log :
        log[j].op = "apply" =>
            /\ log[j].arg[3] # <<>> /\ log[j].arg[3][1] \in Digits
            /\ compareSemver(log[j].arg[3], log[j].arg[2]) > 0

\* ------------------------------- Config: the repository name predicates
VARIABLES
    mConf,       \* the configuration
    mOther,      \* a configuration that differs from it in the exclusion list alone
    mName,       \* the repository name asked about
    mAnswer      \* the answers of the predicates, once asked

matchVars == <<mConf, mOther, mName, mAnswer>>

MatchPatterns == {"ns8-*", "nethserver-mail", "["}
MatchNames == RepoNames \cup {"nethserver-mail", "random-repo"}

NoAnswer == [asked |-> {}, matches |-> FALSE, matchesOther |-> FALSE, should |-> FALSE]

MatchIdle ==
    /\ mConf = DefaultConfig /\ mOther = DefaultConfig /\ mName = "" /\ mAnswer = NoAnswer

MatchInit ==
    /\ \E ps \in SUBSET MatchPatterns, ex \in SUBSET MatchNames, ex2 \in SUBSET RepoNames :
          /\ mConf = [DefaultConfig EXCEPT !.RepoPatterns = ps, !.ExcludeRepos = ex]
          /\ mOther = [DefaultConfig EXCEPT !.RepoPatterns = ps, !.ExcludeRepos = ex2]
    /\ mName \in MatchNames
    /\ mAnswer = NoAnswer

CallMatchesRepoPattern ==
    /\ "MatchesRepoPattern" \notin mAnswer.asked
    /\ mAnswer' = [mAnswer EXCEPT !.asked = @ \cup {"MatchesRepoPattern"},
                                  !.matches = MatchesRepoPattern(mConf, mName),
                                  !.matchesOther = MatchesRepoPattern(mOther, mName)]
    /\ UNCHANGED <<mConf, mOther, mName>>

CallShouldUpdateRepo ==
    /\ "ShouldUpdateRepo" \notin mAnswer.asked
    /\ mAnswer' = [mAnswer EXCEPT !.asked = @ \cup {"ShouldUpdateRepo"},
                                  !.should = ShouldUpdateRepo(mConf, mName)]
    /\ UNCHANGED <<mConf, mOther, mName>>

\* whether the name matches the pattern, by the shape of the pattern: the
\* malformed pattern matches nothing, ns8-* the names that begin with
\* ns8-, a pattern without metacharacters its own name
NameMatches(pattern, name) ==
    \/ pattern = "ns8-*" /\ name \in {"ns8-a", "ns8-b"}
    \/ pattern = "nethserver-mail" /\ name = "nethserver-mail"

\* C25: ShouldUpdateRepo(name) is true exactly when name matches at least
\* one configured repository pattern and is not in the exclusion list;
\* MatchesRepoPattern(name) does not depend on the exclusion list.
C25_ShouldUpdateIsMatchAndNotExcluded ==
    /\ "ShouldUpdateRepo" \in mAnswer.asked =>
          (mAnswer.should <=>
              /\ \E p \in mConf.RepoPatterns : NameMatches(p, mName)
              /\ mName \notin mConf.ExcludeRepos)
    /\ "MatchesRepoPattern" \in mAnswer.asked =>
          /\ mAnswer.matches = mAnswer.matchesOther
          /\ mAnswer.matches <=> \E p \in mConf.RepoPatterns : NameMatches(p, mName)

\* both predicates were asked about a name that matches a pattern and is
\* excluded: it matches and is not to be updated
C25_Witness ==
    /\ mAnswer.asked = {"MatchesRepoPattern", "ShouldUpdateRepo"}
    /\ mName = "ns8-a" /\ "ns8-*" \in mConf.RepoPatterns /\ "ns8-a" \in mConf.ExcludeRepos
    /\ mOther.ExcludeRepos = {}
    /\ mAnswer.matches /\ ~mAnswer.should

\* ------------------------------------------------ the specifications
vars == <<applyVars, verVars, scanVars, findVars, textVars, tagVars, matchVars, wfVars>>

\* the workflow: one command of the CLI
Next ==
    \/ RefreshRepositories /\ UNCHANGED <<applyVars, verVars, scanVars, findVars, textVars, tagVars, matchVars>>
    \/ CallScanAll /\ UNCHANGED <<applyVars, verVars, scanVars, findVars, textVars, tagVars, matchVars>>
    \/ CallUpdateAll /\ UNCHANGED <<applyVars, verVars, scanVars, findVars, textVars, tagVars, matchVars>>
    \/ CallUpdateRepository /\ UNCHANGED <<applyVars, verVars, scanVars, findVars, textVars, tagVars, matchVars>>
    \/ SA_Repo /\ UNCHANGED <<applyVars, verVars, scanVars, findVars, textVars, tagVars, matchVars>>
    \/ SA_Return /\ UNCHANGED <<applyVars, verVars, scanVars, findVars, textVars, tagVars, matchVars>>
    \/ UA_Repo /\ UNCHANGED <<applyVars, verVars, scanVars, findVars, textVars, tagVars, matchVars>>
    \/ UA_Return /\ UNCHANGED <<applyVars, verVars, scanVars, findVars, textVars, tagVars, matchVars>>
    \/ UR_Start /\ UNCHANGED <<applyVars, verVars, scanVars, findVars, textVars, tagVars, matchVars>>
    \/ UR_Scan /\ UNCHANGED <<applyVars, verVars, scanVars, findVars, textVars, tagVars, matchVars>>
    \/ UR_Branch /\ UNCHANGED <<applyVars, verVars, scanVars, findVars, textVars, tagVars, matchVars>>
    \/ UR_Apply /\ UNCHANGED <<applyVars, verVars, scanVars, findVars, textVars, tagVars, matchVars>>
    \/ UR_Commit /\ UNCHANGED <<applyVars, verVars, scanVars, findVars, textVars, tagVars, matchVars>>
    \/ UR_Push /\ UNCHANGED <<applyVars, verVars, scanVars, findVars, textVars, tagVars, matchVars>>
    \/ UR_Return /\ UNCHANGED <<applyVars, verVars, scanVars, findVars, textVars, tagVars, matchVars>>

Init == WfInit /\ ApplyIdle /\ VerIdle /\ ScanIdle /\ FindIdle /\ TextIdle /\ TagsIdle /\ MatchIdle

Spec == Init /\ [][Next]_vars

\* the patcher: ApplyUpdate called on a file, once and again
ApplyNext == CallApplyUpdate /\ UNCHANGED <<verVars, scanVars, findVars, wfVars, textVars, tagVars, matchVars>>

InitApply == ApplyInit /\ VerIdle /\ ScanIdle /\ FindIdle /\ WfIdle /\ TextIdle /\ TagsIdle /\ MatchIdle

SpecApply == InitApply /\ [][ApplyNext]_vars

\* the version selection of the images package
VerNext ==
    \/ CallFindNearestUpgrade /\ UNCHANGED <<applyVars, scanVars, findVars, wfVars, textVars, tagVars, matchVars>>
    \/ CallFilterLatestVersion /\ UNCHANGED <<applyVars, scanVars, findVars, wfVars, textVars, tagVars, matchVars>>

InitVer == VerInit /\ ApplyIdle /\ ScanIdle /\ FindIdle /\ WfIdle /\ TextIdle /\ TagsIdle /\ MatchIdle

SpecVer == InitVer /\ [][VerNext]_vars

\* the scanner: the walk of DockerUpdater.Scan over a tree
ScanNext == WalkStep /\ UNCHANGED <<applyVars, verVars, findVars, wfVars, textVars, tagVars, matchVars>>

InitScan == ScanInit /\ ApplyIdle /\ VerIdle /\ FindIdle /\ WfIdle /\ TextIdle /\ TagsIdle /\ MatchIdle

SpecScan == InitScan /\ [][ScanNext]_vars

\* the image finder: the walk of FindDockerImages over a directory
FindNext ==
    \/ FindWalkStep /\ UNCHANGED <<applyVars, verVars, scanVars, wfVars, textVars, tagVars, matchVars>>
    \/ FindReturn /\ UNCHANGED <<applyVars, verVars, scanVars, wfVars, textVars, tagVars, matchVars>>

InitFind == FindInit /\ ApplyIdle /\ VerIdle /\ ScanIdle /\ WfIdle /\ TextIdle /\ TagsIdle /\ MatchIdle

SpecFind == InitFind /\ [][FindNext]_vars

\* the text functions of the image finder, in the order its callback
\* calls them
TextNext ==
    \/ CallStripComments /\ UNCHANGED <<applyVars, verVars, scanVars, findVars, wfVars, tagVars, matchVars>>
    \/ CallExtractBashVars /\ UNCHANGED <<applyVars, verVars, scanVars, findVars, wfVars, tagVars, matchVars>>
    \/ CallResolveVars /\ UNCHANGED <<applyVars, verVars, scanVars, findVars, wfVars, tagVars, matchVars>>

InitText == TextInit /\ ApplyIdle /\ VerIdle /\ ScanIdle /\ FindIdle /\ WfIdle /\ TagsIdle /\ MatchIdle

SpecText == InitText /\ [][TextNext]_vars

\* the tag listing of the images package
TagsNext ==
    \/ CallGetImageUpdates
          /\ UNCHANGED <<applyVars, verVars, scanVars, findVars, textVars, wfVars, matchVars>>
    \/ FetchPage /\ UNCHANGED <<applyVars, verVars, scanVars, findVars, textVars, wfVars, matchVars>>

InitTags ==
    TagsInit /\ ApplyIdle /\ VerIdle /\ ScanIdle /\ FindIdle /\ TextIdle /\ WfIdle /\ MatchIdle

SpecTags == InitTags /\ [][TagsNext]_vars

\* the same with the call running on: GetImageUpdates is one sequential
\* call, and every request it makes is answered
SpecTagsFair == SpecTags /\ WF_vars(TagsNext)

\* the repository name predicates of the configuration
MatchNext ==
    \/ CallMatchesRepoPattern
          /\ UNCHANGED <<applyVars, verVars, scanVars, findVars, textVars, tagVars, wfVars>>
    \/ CallShouldUpdateRepo
          /\ UNCHANGED <<applyVars, verVars, scanVars, findVars, textVars, tagVars, wfVars>>

InitMatch ==
    /\ MatchInit /\ ApplyIdle /\ VerIdle /\ ScanIdle /\ FindIdle /\ TextIdle /\ TagsIdle
    /\ WfIdle

SpecMatch == InitMatch /\ [][MatchNext]_vars

=============================================================================
